---- MODULE Spec2Model ----
(***************************************************************************)
(* waitdaemon: a two-stage "double fork" for containers.                   *)
(*                                                                         *)
(* A chain of containers is modelled.  Every container that runs the       *)
(* wrapper image executes main(): it reads its environment, selects a      *)
(* container engine (runtime.Detect) and runs firstFork or secondFork.     *)
(* Strings of the program are sequences of one-character strings, so that  *)
(* prefix tests, formatting and parsing are computed, not assumed.         *)
(***************************************************************************)
EXTENDS Integers, Sequences, FiniteSets, TLC

VARIABLES containers, proc

vars == <<containers, proc>>

---------------------------------------------------------------------------
(* Bounds of the model *)

\* The longest chain of containers the model builds.
MaxContainers == 3

---------------------------------------------------------------------------
(* Program constants: src/unnamed/part_004, lines 22-51 *)

phaseEnv == <<"P","H","A","S","E">>
imageEnv == <<"I","M","A","G","E">>
waitTimeEnv == <<"W","A","I","T","_","S","E","C","O","N","D","S">>
runtimeEnv == <<"C","O","N","T","A","I","N","E","R","_","R","U","N","T","I","M","E">>
nerdctlNamespaceEnv == <<"N","E","R","D","C","T","L","_","N","A","M","E","S","P","A","C","E">>
nerdctlHostEnv == <<"N","E","R","D","C","T","L","_","H","O","S","T">>
defaultNerdctlNamespace == <<"t","i","n","k","e","r","b","e","l","l">>
phaseSecondFork == <<"S","E","C","O","N","D","_","F","O","R","K">>
runtimeClientErrorCode == 12
firstForkErrorCode == 1
secondForkErrorCode == 2
\* defaultWaitTime, in seconds
defaultWaitTime == 10

(* Program constants: src/runtime/detect.go, lines 14-19 *)
RuntimeDocker == <<"d","o","c","k","e","r">>
RuntimeNerdctl == <<"n","e","r","d","c","t","l">>
RuntimeAuto == <<"a","u","t","o">>

---------------------------------------------------------------------------
(* Strings *)

Empty == <<>>

\* strings.HasPrefix(s, prefix)
HasPrefix(s, prefix) ==
    /\ Len(s) >= Len(prefix)
    /\ SubSeq(s, 1, Len(prefix)) = prefix

\* fmt.Sprintf("%v=%v", k, v)
Sprintf(k, v) == k \o <<"=">> \o v

\* The values a process may read for variable key from an environment list:
\* the text after "key=" of every entry of that key, or the empty string when
\* there is none.  Which entry wins when a key occurs twice is decided by the
\* engine and the operating system, outside this repository, so every entry
\* of the key is a possible reading.
Getenv(env, key) ==
    LET hits == { k \in 1..Len(env) : HasPrefix(env[k], key \o <<"=">>) }
    IN  IF hits = {} THEN { Empty }
        ELSE { SubSeq(env[k], Len(key) + 2, Len(env[k])) : k \in hits }

Digits == <<"0","1","2","3","4","5","6","7","8","9">>

IsDigit(c) == \E d \in 1..10 : Digits[d] = c

DigitVal(c) == (CHOOSE d \in 1..10 : Digits[d] = c) - 1

RECURSIVE DecVal(_)
DecVal(s) == IF s = Empty THEN 0
             ELSE 10 * DecVal(SubSeq(s, 1, Len(s) - 1)) + DigitVal(s[Len(s)])

\* strconv.Atoi(s): an optional sign followed by at least one decimal digit.
\* The strings of the model are short, so the range error of Atoi is not
\* reachable here.
AtoiBody(s) == IF s # Empty /\ s[1] \in {"+", "-"} THEN Tail(s) ELSE s

AtoiOk(s) ==
    /\ AtoiBody(s) # Empty
    /\ \A k \in 1..Len(AtoiBody(s)) : IsDigit(AtoiBody(s)[k])

Atoi(s) == IF s # Empty /\ s[1] = "-" THEN 0 - DecVal(AtoiBody(s))
           ELSE DecVal(AtoiBody(s))

---------------------------------------------------------------------------
(* Runtime selection: src/runtime/detect.go *)

\* What a factory and the liveness check of the engine it builds can do:
\* the factory fails, the engine has no Ping method, Ping fails, Ping succeeds.
FactoryOutcomes == {"newerr", "noping", "pingerr", "ok"}

NoRuntime == "none"

S(rt, err, trace, cli) == [rt |-> rt, err |-> err, trace |-> trace, cli |-> cli]

\* Faulty variant: the engine whose Ping failed is not closed.
tryDocker_NoClose(d) ==
    IF d = "newerr" THEN S(NoRuntime, TRUE, <<"dockerFn">>, Empty)
    ELSE IF d = "noping" THEN S("docker", FALSE, <<"dockerFn">>, Empty)
    ELSE IF d = "pingerr" THEN S(NoRuntime, TRUE, <<"dockerFn", "docker.Ping">>, Empty)
    ELSE S("docker", FALSE, <<"dockerFn", "docker.Ping">>, Empty)

\* tryDocker: construct, ping when the engine is Pingable, close on a failed ping.
tryDocker(d) ==
    IF d = "newerr" THEN S(NoRuntime, TRUE, <<"dockerFn">>, Empty)
    ELSE IF d = "noping" THEN S("docker", FALSE, <<"dockerFn">>, Empty)
    ELSE IF d = "pingerr"
         THEN S(NoRuntime, TRUE, <<"dockerFn", "docker.Ping", "docker.Close">>, Empty)
    ELSE S("docker", FALSE, <<"dockerFn", "docker.Ping">>, Empty)

nsenterTokens ==
    << <<"n","s","e","n","t","e","r">>, <<"-","t">>, <<"1">>, <<"-","m">>,
       <<"-","u">>, <<"-","i">>, <<"-","n">>, <<"-","p">>, <<"-","-">> >>

namespaceFlag == <<"-","-","n","a","m","e","s","p","a","c","e">>

\* Faulty variant: the nsenter tokens are put after the nerdctl tokens.
nerdctlCli_NsenterLast(namespace, useNsenter) ==
    LET base == << RuntimeNerdctl >>
        withNs == IF namespace # Empty THEN base \o <<namespaceFlag, namespace>>
                  ELSE base
    IN  IF useNsenter THEN withNs \o nsenterTokens ELSE withNs

\* The command prefix tryNerdctl hands to the CLI engine factory.
nerdctlCli(namespace, useNsenter) ==
    LET base == << RuntimeNerdctl >>
        withNs == IF namespace # Empty THEN base \o <<namespaceFlag, namespace>>
                  ELSE base
    IN  IF useNsenter THEN nsenterTokens \o withNs ELSE withNs

\* Faulty variant: an engine without a Ping method is refused.
tryNerdctl_PingRequired(n, namespace, useNsenter) ==
    LET cli == nerdctlCli(namespace, useNsenter)
    IN  IF n = "newerr" THEN S(NoRuntime, TRUE, <<"nerdctlFn">>, cli)
        ELSE IF n = "noping" THEN S(NoRuntime, TRUE, <<"nerdctlFn", "nerdctl.Close">>, cli)
        ELSE IF n = "pingerr"
             THEN S(NoRuntime, TRUE, <<"nerdctlFn", "nerdctl.Ping", "nerdctl.Close">>, cli)
        ELSE S("nerdctl", FALSE, <<"nerdctlFn", "nerdctl.Ping">>, cli)

\* tryNerdctl: the prefix is built, then construct, ping when the engine is
\* Pingable, close on a failed ping.
tryNerdctl(n, namespace, useNsenter) ==
    LET cli == nerdctlCli(namespace, useNsenter)
    IN  IF n = "newerr" THEN S(NoRuntime, TRUE, <<"nerdctlFn">>, cli)
        ELSE IF n = "noping" THEN S("nerdctl", FALSE, <<"nerdctlFn">>, cli)
        ELSE IF n = "pingerr"
             THEN S(NoRuntime, TRUE, <<"nerdctlFn", "nerdctl.Ping", "nerdctl.Close">>, cli)
        ELSE S("nerdctl", FALSE, <<"nerdctlFn", "nerdctl.Ping">>, cli)

\* Faulty variant: the CLI engine is attempted first.
autoDetect_CliFirst(d, n, namespace, useNsenter) ==
    LET a == tryDocker(d)
        b == tryNerdctl(n, namespace, useNsenter)
    IN  IF ~b.err THEN b
        ELSE IF ~a.err THEN S(a.rt, FALSE, b.trace \o a.trace, b.cli)
        ELSE S(NoRuntime, TRUE, b.trace \o a.trace, b.cli)

\* autoDetect: tryDocker, and tryNerdctl only when tryDocker returned an error.
autoDetect(d, n, namespace, useNsenter) ==
    LET a == tryDocker(d)
        b == tryNerdctl(n, namespace, useNsenter)
    IN  IF ~a.err THEN a
        ELSE IF ~b.err THEN S(b.rt, FALSE, a.trace \o b.trace, b.cli)
        ELSE S(NoRuntime, TRUE, a.trace \o b.trace, b.cli)

\* Faulty variant: an unknown preference is treated as auto.
Detect_UnknownIsAuto(preference, d, n, nerdctlNamespace, nsenterHost) ==
    IF preference = RuntimeDocker THEN tryDocker(d)
    ELSE IF preference = RuntimeNerdctl THEN tryNerdctl(n, nerdctlNamespace, nsenterHost)
    ELSE autoDetect(d, n, nerdctlNamespace, nsenterHost)

\* Faulty variant: an explicit preference falls back to the other engine.
Detect_ExplicitFallsBack(preference, d, n, nerdctlNamespace, nsenterHost) ==
    IF preference = RuntimeDocker THEN autoDetect(d, n, nerdctlNamespace, nsenterHost)
    ELSE IF preference = RuntimeNerdctl
         THEN LET b == tryNerdctl(n, nerdctlNamespace, nsenterHost)
                  a == tryDocker(d)
              IN  IF ~b.err THEN b
                  ELSE S(a.rt, a.err, b.trace \o a.trace, b.cli)
    ELSE IF preference = RuntimeAuto \/ preference = Empty
         THEN autoDetect(d, n, nerdctlNamespace, nsenterHost)
    ELSE S(NoRuntime, TRUE, <<>>, Empty)

\* Faulty variant: the host-namespace flag sends the docker preference to the
\* CLI engine.
Detect_HostFlagPicksCli(preference, d, n, nerdctlNamespace, nsenterHost) ==
    IF preference = RuntimeDocker /\ ~nsenterHost THEN tryDocker(d)
    ELSE IF preference = RuntimeDocker \/ preference = RuntimeNerdctl
         THEN tryNerdctl(n, nerdctlNamespace, nsenterHost)
    ELSE IF preference = RuntimeAuto \/ preference = Empty
         THEN autoDetect(d, n, nerdctlNamespace, nsenterHost)
    ELSE S(NoRuntime, TRUE, <<>>, Empty)

\* Detect: the switch on preference.
Detect(preference, d, n, nerdctlNamespace, nsenterHost) ==
    IF preference = RuntimeDocker THEN tryDocker(d)
    ELSE IF preference = RuntimeNerdctl THEN tryNerdctl(n, nerdctlNamespace, nsenterHost)
    ELSE IF preference = RuntimeAuto \/ preference = Empty
         THEN autoDetect(d, n, nerdctlNamespace, nsenterHost)
    ELSE S(NoRuntime, TRUE, <<>>, Empty)

Upper == <<"A","B","C","D","E","F","G","H","I","J","K","L","M",
           "N","O","P","Q","R","S","T","U","V","W","X","Y","Z">>
Lower == <<"a","b","c","d","e","f","g","h","i","j","k","l","m",
           "n","o","p","q","r","s","t","u","v","w","x","y","z">>

\* strings.ToLower
ToLower(s) ==
    [k \in 1..Len(s) |->
        IF \E u \in 1..26 : Upper[u] = s[k]
        THEN Lower[CHOOSE u \in 1..26 : Upper[u] = s[k]]
        ELSE s[k]]

\* nsenterEnabled, applied to the value read for NERDCTL_HOST
nsenterEnabled(value) ==
    LET v == ToLower(value)
    IN  IF v = Empty THEN TRUE
        ELSE v = <<"t","r","u","e">> \/ v = <<"1">>

---------------------------------------------------------------------------
(* runtime.ContainerInfo and the two engines *)

\* runtime.ContainerInfo (the Snapshotter field is read and written by no
\* engine of the repository and is left out).
ContainerInfo(image, env, cmd, tty, aout, aerr, priv, binds, pid) ==
    [Image |-> image, Env |-> env, Cmd |-> cmd, Tty |-> tty,
     AttachStdout |-> aout, AttachStderr |-> aerr, Privileged |-> priv,
     Binds |-> binds, PidMode |-> pid]

\* runtime.ContainerInfo{}
ZeroInfo == ContainerInfo(Empty, <<>>, <<>>, FALSE, FALSE, FALSE, FALSE, <<>>, Empty)

HostPid == <<"h","o","s","t">>

\* docker: containerInfoFromInspect copies the inspected configuration 1:1.
containerInfoFromInspect(con) ==
    ContainerInfo(con.Image, con.Env, con.Cmd, con.Tty, con.AttachStdout,
                  con.AttachStderr, con.Privileged, con.Binds, con.PidMode)

\* strings.HasSuffix(s, suffix)
HasSuffix(s, suffix) ==
    /\ Len(s) >= Len(suffix)
    /\ SubSeq(s, Len(s) - Len(suffix) + 1, Len(s)) = suffix

\* strings.TrimPrefix(s, prefix)
TrimPrefix(s, prefix) ==
    IF HasPrefix(s, prefix) THEN SubSeq(s, Len(prefix) + 1, Len(s)) ELSE s

\* The white space of strings.TrimSpace and strings.Fields that the texts of
\* the model contain
WhiteSpace == {" ", "\t", "\n", "\r"}

\* s without the white space at its start, and at its end
RECURSIVE TrimLeft(_)
TrimLeft(s) == IF s # <<>> /\ Head(s) \in WhiteSpace THEN TrimLeft(Tail(s)) ELSE s

RECURSIVE TrimRight(_)
TrimRight(s) ==
    IF s # <<>> /\ s[Len(s)] \in WhiteSpace THEN TrimRight(SubSeq(s, 1, Len(s) - 1)) ELSE s

\* strings.TrimSpace(s)
TrimSpace(s) == TrimRight(TrimLeft(s))

\* strings.EqualFold(s, t), for the letters of the model's texts
EqualFold(s, t) == ToLower(s) = ToLower(t)

\* The place of the first character of s that is in stop, or Len(s) + 1
Cut(s, stop) ==
    CHOOSE k \in 1..(Len(s) + 1) :
        /\ k = Len(s) + 1 \/ s[k] \in stop
        /\ \A j \in 1..(k - 1) : s[j] \notin stop

\* strings.Split(s, sep) for a separator of one character
RECURSIVE Split(_, _)
Split(s, sep) ==
    IF Cut(s, {sep}) > Len(s) THEN << s >>
    ELSE << SubSeq(s, 1, Cut(s, {sep}) - 1) >>
         \o Split(SubSeq(s, Cut(s, {sep}) + 1, Len(s)), sep)

\* strings.Join(elems, sep)
RECURSIVE Join(_, _)
Join(elems, sep) ==
    IF elems = <<>> THEN Empty
    ELSE IF Len(elems) = 1 THEN elems[1]
    ELSE elems[1] \o sep \o Join(Tail(elems), sep)

\* strings.Fields(s)
RECURSIVE Fields(_)
Fields(s) ==
    IF TrimLeft(s) = <<>> THEN <<>>
    ELSE << SubSeq(TrimLeft(s), 1, Cut(TrimLeft(s), WhiteSpace) - 1) >>
         \o Fields(SubSeq(TrimLeft(s), Cut(TrimLeft(s), WhiteSpace), Len(TrimLeft(s))))

\* nerdctl: mountEntry, one element of the Mounts array of the inspection
mountEntry(type, source, destination, target, mode, rw, propagation) ==
    [Type |-> type, Source |-> source, Destination |-> destination,
     Target |-> target, Mode |-> mode, RW |-> rw, Propagation |-> propagation]

\* nerdctl: inspectResponse, the part of the inspection that is decoded
inspectResponse(path, args, mounts, image, env, cmd, entrypoint, tty, aout, aerr, priv, binds, pid) ==
    [Path |-> path, Args |-> args, Mounts |-> mounts,
     Config |-> [Image |-> image, Env |-> env, Cmd |-> cmd, Entrypoint |-> entrypoint,
                 Tty |-> tty, AttachStdout |-> aout, AttachStderr |-> aerr],
     HostConfig |-> [Privileged |-> priv, Binds |-> binds, PidMode |-> pid]]

\* inspectResponse{}
ZeroResponse ==
    inspectResponse(Empty, <<>>, <<>>, Empty, <<>>, <<>>, <<>>, FALSE, FALSE, FALSE,
                    FALSE, <<>>, Empty)

\* nerdctl: collectCSV, the body of the loop for the trimmed token o.  acc
\* holds opts and the keys of seen.
collectCSV_Option(acc, o) ==
    IF o = Empty \/ EqualFold(o, <<"b","i","n","d">>) \/ ToLower(o) \in acc.seen THEN acc
    ELSE [opts |-> Append(acc.opts, o), seen |-> acc.seen \cup { ToLower(o) }]

\* nerdctl: collectCSV, the loop over the tokens of the option string
RECURSIVE collectCSV_Loop(_, _)
collectCSV_Loop(acc, tokens) ==
    IF tokens = <<>> THEN acc
    ELSE collectCSV_Loop(collectCSV_Option(acc, TrimSpace(Head(tokens))), Tail(tokens))

\* nerdctl: collectCSV(&opts, seen, csv)
collectCSV(acc, csv) == collectCSV_Loop(acc, Split(csv, ","))

\* Faulty variant: "ro" is appended for every mount that is not writable.
mountOptions_RW_AlwaysRo(m, all) ==
    IF ~m.RW THEN Append(all.opts, <<"r","o">>) ELSE all.opts

\* nerdctl: mountOptions, after the options all were collected: the RW field
\* is honoured.
mountOptions_RW(m, all) ==
    IF ~m.RW /\ <<"r","o">> \notin all.seen /\ <<"r","w">> \notin all.seen
    THEN Append(all.opts, <<"r","o">>)
    ELSE all.opts

\* nerdctl: mountOptions(m)
mountOptions(m) ==
    mountOptions_RW(m, collectCSV(collectCSV([opts |-> <<>>, seen |-> {}], m.Mode),
                                  m.Propagation))

\* Faulty variant: /etc/hostname is not among the internal destinations.
isNerdctlInternalMount_TwoDests(destination) ==
    destination \in { <<"/","e","t","c","/","r","e","s","o","l","v",".","c","o","n","f">>, <<"/","e","t","c","/","h","o","s","t","s">> }

\* nerdctl: isNerdctlInternalMount(destination)
isNerdctlInternalMount(destination) ==
    destination \in { <<"/","e","t","c","/","r","e","s","o","l","v",".","c","o","n","f">>, <<"/","e","t","c","/","h","o","s","t","s">>, <<"/","e","t","c","/","h","o","s","t","n","a","m","e">> }

\* nerdctl: infoFromInspect, the body of the loop for mount m with the
\* resolved destination dest and the options opts: no bind, or one
infoFromInspect_Bind(m, dest, opts) ==
    IF ~EqualFold(m.Type, <<"b","i","n","d">>) \/ dest = Empty \/ isNerdctlInternalMount(dest)
    THEN <<>>
    ELSE << m.Source \o <<":">> \o dest
            \o (IF Len(opts) > 0 THEN <<":">> \o Join(opts, <<",">>) ELSE Empty) >>

\* nerdctl: infoFromInspect, the loop over resp.Mounts that builds the binds
RECURSIVE infoFromInspect_Binds(_)
infoFromInspect_Binds(mounts) ==
    IF mounts = <<>> THEN <<>>
    ELSE infoFromInspect_Bind(Head(mounts),
                              IF Head(mounts).Destination = Empty
                              THEN Head(mounts).Target ELSE Head(mounts).Destination,
                              mountOptions(Head(mounts)))
         \o infoFromInspect_Binds(Tail(mounts))

\* nerdctl: infoFromInspect(resp)
infoFromInspect(resp) ==
    ContainerInfo(resp.Config.Image, resp.Config.Env,
                  IF Len(resp.Config.Cmd) = 0 /\ Len(resp.Args) > 0
                  THEN resp.Args ELSE resp.Config.Cmd,
                  resp.Config.Tty, resp.Config.AttachStdout, resp.Config.AttachStderr,
                  resp.HostConfig.Privileged,
                  IF Len(resp.HostConfig.Binds) = 0 /\ Len(resp.Mounts) > 0
                  THEN resp.HostConfig.Binds \o infoFromInspect_Binds(resp.Mounts)
                  ELSE resp.HostConfig.Binds,
                  resp.HostConfig.PidMode)

\* What `container inspect --format {{json .}}` printed, as the JSON value
\* encoding/json sees: an array, an object, null, a value of another type (a
\* string), or text that is not JSON.  elems holds the elements of an array
\* or the one object; every element is an object that decodes to resp, null,
\* or a value of another type.
JsonElement(kind, resp) == [kind |-> kind, resp |-> resp]

JsonValue(kind, elems) == [kind |-> kind, elems |-> elems]

\* json.Unmarshal(out, &responses): null leaves the slice nil, an array
\* decodes element by element (null to the zero value) and reports a type
\* error for an element that is no object, anything else is an error.
Unmarshal_List(out) ==
    IF out.kind = "null" THEN [err |-> FALSE, responses |-> <<>>]
    ELSE IF out.kind = "array"
    THEN [err |-> \E k \in DOMAIN out.elems : out.elems[k].kind \notin {"object", "null"},
          responses |-> [k \in DOMAIN out.elems |->
                            IF out.elems[k].kind = "object" THEN out.elems[k].resp
                            ELSE ZeroResponse]]
    ELSE [err |-> TRUE, responses |-> <<>>]

\* json.Unmarshal(out, &resp): null leaves resp zero, an object decodes,
\* anything else is an error.
Unmarshal_Object(out) ==
    IF out.kind = "null" THEN [err |-> FALSE, resp |-> ZeroResponse]
    ELSE IF out.kind = "object" THEN [err |-> FALSE, resp |-> out.elems[1].resp]
    ELSE [err |-> TRUE, resp |-> ZeroResponse]

\* What InspectSelf returns, and the forms of the output it tried to decode
InspectResult(info, err, tried) == [info |-> info, err |-> err, tried |-> tried]

\* nerdctl: InspectSelf, the condition of the first decoding
ListForm(out) == ~Unmarshal_List(out).err /\ Len(Unmarshal_List(out).responses) > 0

\* Faulty variant: an empty list is decoded like an object without fields.
Nerdctl_Parse_EmptyListOk(out) ==
    IF ~ListForm(out) /\ Unmarshal_Object(out).err
       /\ ~(out.kind = "array" /\ ~Unmarshal_List(out).err)
    THEN InspectResult(ZeroInfo, TRUE, <<"list", "object">>)
    ELSE InspectResult(infoFromInspect(IF ListForm(out) THEN Unmarshal_List(out).responses[1]
                                       ELSE Unmarshal_Object(out).resp),
                       FALSE,
                       IF ListForm(out) THEN <<"list">> ELSE <<"list", "object">>)

\* nerdctl: InspectSelf, decoding the output: the list form, then the object
\* form.
Nerdctl_Parse(out) ==
    IF ~ListForm(out) /\ Unmarshal_Object(out).err
    THEN InspectResult(ZeroInfo, TRUE, <<"list", "object">>)
    ELSE InspectResult(infoFromInspect(IF ListForm(out) THEN Unmarshal_List(out).responses[1]
                                       ELSE Unmarshal_Object(out).resp),
                       FALSE,
                       IF ListForm(out) THEN <<"list">> ELSE <<"list", "object">>)

\* /proc/self/status as the process reads it: whether os.ReadFile succeeds,
\* and the text.
ProcFile(readable, data) == [readable |-> readable, data |-> data]

\* The lines of the text that start with prefix
LinesOf(data, prefix) == SelectSeq(Split(data, "\n"), LAMBDA line : HasPrefix(line, prefix))

\* nerdctl: detectPrivileged, on /proc/self/status
detectPrivileged(status) ==
    /\ status.readable
    /\ \E lines \in { LinesOf(status.data, <<"C","a","p","E","f","f",":">>) } :
          /\ lines # <<>>
          /\ HasSuffix(TrimSpace(TrimPrefix(lines[1], <<"C","a","p","E","f","f",":">>)), <<"f","f","f","f","f","f","f","f","f">>)

\* nerdctl: detectPidMode, on /proc/self/status
detectPidMode(status) ==
    IF /\ status.readable
       /\ \E lines \in { LinesOf(status.data, <<"N","S","p","i","d",":">>) } :
             lines # <<>> /\ Len(Fields(lines[1])) = 2
    THEN HostPid
    ELSE Empty

\* Faulty variant: the values read from /proc replace the inspected ones.
Nerdctl_Fallback_Overrides(parsed, status) ==
    IF parsed.err THEN parsed
    ELSE [parsed EXCEPT !.info.Privileged = detectPrivileged(status),
                        !.info.PidMode = detectPidMode(status)]

\* nerdctl: InspectSelf, after the decoding: the error is returned, or the
\* fallback for Privileged and PidMode is applied.
Nerdctl_Fallback(parsed, status) ==
    IF parsed.err THEN parsed
    ELSE [parsed EXCEPT !.info.Privileged = IF ~@ THEN detectPrivileged(status) ELSE @,
                        !.info.PidMode = IF @ = Empty THEN detectPidMode(status) ELSE @]

\* nerdctl: InspectSelf.  fault says whether os.Hostname or the inspect
\* command fails, out is what the command printed, status is
\* /proc/self/status.
Nerdctl_Inspect(fault, out, status) ==
    IF fault # "none" THEN InspectResult(ZeroInfo, TRUE, <<>>)
    ELSE Nerdctl_Fallback(Nerdctl_Parse(out), status)

\* /proc/self/status of a process in a container of configuration con: the
\* effective capabilities are all set in a privileged container, and NSpid
\* has one entry in the PID namespace of the host and two in the container's
\* own.
ProcStatus(con) ==
    ProcFile(TRUE,
             (IF con.Privileged THEN <<"C","a","p","E","f","f",":","\t","0","0","0","0","0","1","f","f","f","f","f","f","f","f","f","f","\n">>
              ELSE <<"C","a","p","E","f","f",":","\t","0","0","0","0","0","0","0","0","a","8","0","4","2","5","f","b","\n">>)
             \o (IF con.PidMode = HostPid THEN <<"N","S","p","i","d",":","\t","7","\n">> ELSE <<"N","S","p","i","d",":","\t","7","\t","1","\n">>))

\* What nerdctl prints for a container of configuration con: a list of one
\* object, with HostConfig.Privileged and HostConfig.PidMode unpopulated.
InspectOutput(con) ==
    JsonValue("array",
        << JsonElement("object",
               inspectResponse(Empty, <<>>, <<>>, con.Image, con.Env, con.Cmd, <<>>,
                               con.Tty, con.AttachStdout, con.AttachStderr,
                               FALSE, con.Binds, Empty)) >>)

\* nerdctl: InspectSelf in a container of configuration con, when it
\* succeeds
Nerdctl_InspectSelf(con) ==
    Nerdctl_Inspect("none", InspectOutput(con), ProcStatus(con)).info

\* rt.InspectSelf, on the configuration of the container the process runs in
InspectSelf(rt, con) ==
    IF rt = "docker" THEN containerInfoFromInspect(con) ELSE Nerdctl_InspectSelf(con)

\* docker: RunContainer builds container.Config and container.HostConfig from
\* every field of info.
Docker_RunContainer(info) ==
    ContainerInfo(info.Image, info.Env, info.Cmd, info.Tty, info.AttachStdout,
                  info.AttachStderr, info.Privileged, info.Binds, info.PidMode)

\* Faulty variant: the run options carry no Pid option.
Nerdctl_RunContainer_DropsPid(info) ==
    LET command == IF Len(info.Cmd) > 0 THEN << info.Cmd[1] >> ELSE <<>>
        args == IF Len(info.Cmd) > 1 THEN Tail(info.Cmd) ELSE <<>>
    IN  ContainerInfo(info.Image, info.Env, command \o args, info.Tty, FALSE,
                      FALSE, info.Privileged, info.Binds, Empty)

\* nerdctl: RunContainer issues a detached run with Env, Volume, Tty,
\* Privileged and Pid options, the image, and the command split into its
\* first token and the remaining ones.  The attach flags are not part of the
\* request; a detached run attaches neither stream.
Nerdctl_RunContainer(info) ==
    LET command == IF Len(info.Cmd) > 0 THEN << info.Cmd[1] >> ELSE <<>>
        args == IF Len(info.Cmd) > 1 THEN Tail(info.Cmd) ELSE <<>>
    IN  ContainerInfo(info.Image, info.Env, command \o args, info.Tty, FALSE,
                      FALSE, info.Privileged, info.Binds,
                      IF info.PidMode # Empty THEN info.PidMode ELSE Empty)

\* What the image inspection behind ImageExists can do: the image is there,
\* it is not, or the inspection fails (the engine cannot be reached).
ImageInspectOutcomes == {"found", "notfound", "unreachable"}

\* Faulty variant: an inspection that fails for another reason than a missing
\* image reports the image as present.
Docker_ImageExists_ErrorIsPresent(result) == result # "notfound"

\* docker: ImageExists is false on any error of ImageInspect.
Docker_ImageExists(result) == IF result # "found" THEN FALSE ELSE TRUE

\* nerdctl: ImageExists is err == nil of ImageInspect.
Nerdctl_ImageExists(result) == result = "found"

\* rt.ImageExists, for what the inspection of the image does
ImageExists(rt, result) ==
    IF rt = "docker" THEN Docker_ImageExists(result) ELSE Nerdctl_ImageExists(result)

\* The configuration of the container rt.RunContainer creates
RunContainer(rt, info) ==
    IF rt = "docker" THEN Docker_RunContainer(info) ELSE Nerdctl_RunContainer(info)

---------------------------------------------------------------------------
(* Stage controller, pure parts: src/unnamed/part_004 *)

\* Faulty variant: every entry whose text starts with the key is removed.
RECURSIVE stripEnv_KeyPrefix(_, _)
stripEnv_KeyPrefix(envs, key) ==
    IF envs = <<>> THEN <<>>
    ELSE IF ~HasPrefix(Head(envs), key)
         THEN << Head(envs) >> \o stripEnv_KeyPrefix(Tail(envs), key)
         ELSE stripEnv_KeyPrefix(Tail(envs), key)

\* stripEnv(envs, key)
RECURSIVE stripEnv(_, _)
stripEnv(envs, key) ==
    IF envs = <<>> THEN <<>>
    ELSE IF ~HasPrefix(Head(envs), key \o <<"=">>)
         THEN << Head(envs) >> \o stripEnv(Tail(envs), key)
         ELSE stripEnv(Tail(envs), key)

PathKey == <<"P","A","T","H">>

\* Faulty variant: the marker is put in front of the environment.
firstForkInfo_Prepends(info) ==
    [info EXCEPT !.Env = << Sprintf(phaseEnv, phaseSecondFork) >> \o @]

\* firstFork, between InspectSelf and RunContainer: the marker is appended.
firstForkInfo(info) ==
    [info EXCEPT !.Env = Append(@, Sprintf(phaseEnv, phaseSecondFork))]

\* Faulty variant: the marker is removed from the environment like PATH.
runUserImageInfo_StripsMarker(info, img, args0) ==
    [info EXCEPT !.Image = img,
                 !.Cmd = IF Len(@) > 1 /\ @[1] = args0 THEN Tail(@) ELSE @,
                 !.Env = stripEnv(stripEnv(@, PathKey), phaseEnv)]

\* Faulty variant: the image of the inspected container is kept.
runUserImageInfo_KeepsImage(info, img, args0) ==
    [info EXCEPT !.Cmd = IF Len(@) > 1 /\ @[1] = args0 THEN Tail(@) ELSE @,
                 !.Env = stripEnv(@, PathKey)]

\* runUserImage, between InspectSelf and RunContainer: image replaced, the
\* wrapper binary stripped from the command, PATH stripped from the
\* environment.  args0 is os.Args[0].
runUserImageInfo(info, img, args0) ==
    [info EXCEPT !.Image = img,
                 !.Cmd = IF Len(@) > 1 /\ @[1] = args0 THEN Tail(@) ELSE @,
                 !.Env = stripEnv(@, PathKey)]

\* secondFork: the wait, in seconds, for the value read for WAIT_SECONDS.  It
\* is used for the short values of Profiles, for which it agrees with
\* secondForkDuration, the computation in the widths of the program.
waitDuration(waitTime) ==
    IF waitTime # Empty /\ AtoiOk(waitTime) THEN Atoi(waitTime) ELSE defaultWaitTime

\* Faulty variant: the second stage is selected whenever PHASE has a value.
selectStage_MarkerPresent(phase) == IF phase # Empty THEN "second" ELSE "first"

\* main: the switch on phase
selectStage(phase) == IF phase = phaseSecondFork THEN "second" ELSE "first"

---------------------------------------------------------------------------
(* Inputs of the model *)

\* Image references: the wrapper's own image and the user's target image.
WrapperImage == <<"w","d">>
TargetImage == <<"a","l">>

\* os.Args[0] of the wrapper process, and a user command token.
SelfPath == <<"/","w">>
Reboot == <<"r">>

PathA == <<"P","A","T","H","=","/","b">>
PathB == <<"P","A","T","H","=","/","c">>
PathExt == <<"P","A","T","H","E","X","T","=","x">>
BindA == <<"/","s",":","/","s">>

\* An optional environment entry: unset, or key=v for one v of vals.
OptEntry(key, vals) == { <<>> } \cup { << Sprintf(key, v) >> : v \in vals }

\* The fields of a configuration other than image, command and environment.
FlagsA == [tty |-> TRUE, aout |-> FALSE, aerr |-> TRUE, priv |-> FALSE,
           binds |-> << BindA >>, pid |-> HostPid]
FlagsB == [tty |-> FALSE, aout |-> TRUE, aerr |-> FALSE, priv |-> TRUE,
           binds |-> <<>>, pid |-> Empty]

Profile(cmd, pre, post, wait, phase, image, flags) ==
    [cmd |-> cmd, pre |-> pre, post |-> post, wait |-> wait, phase |-> phase,
     image |-> image, flags |-> flags]

Wait(v) == << Sprintf(waitTimeEnv, v) >>
Phase(v) == << Sprintf(phaseEnv, v) >>

\* Configurations of the first container: command, environment entries
\* before and after the wrapper's own variables, the WAIT_SECONDS and PHASE
\* entries (each may be unset), the IMAGE value, and the remaining fields.
\* The first four are what an orchestrator starts; the others start the
\* second stage directly, set PHASE to a foreign value, or name the wrapper's
\* own image as the target.
Profiles ==
    { Profile(<<>>, <<>>, <<>>, <<>>, <<>>, TargetImage, FlagsA),
      Profile(<< SelfPath >>, << PathA >>, <<>>, Wait(<<"2">>), <<>>, TargetImage, FlagsB),
      Profile(<< SelfPath, Reboot >>, << PathA >>, << PathExt, PathB >>, Wait(<<"x">>),
              <<>>, TargetImage, FlagsA),
      Profile(<< Reboot, SelfPath >>, <<>>, << PathExt >>, Wait(<<"0">>), <<>>,
              TargetImage, FlagsB),
      Profile(<< SelfPath, Reboot >>, << PathA >>, << PathB >>, Wait(<<"2">>),
              Phase(phaseSecondFork), TargetImage, FlagsA),
      Profile(<< Reboot >>, << PathA >>, <<>>, Wait(<<"0">>), Phase(<<"X">>),
              TargetImage, FlagsB),
      Profile(<< Reboot >>, <<>>, <<>>, Wait(<<"0">>), <<>>, WrapperImage, FlagsA),
      Profile(<< SelfPath >>, <<>>, <<>>, Wait(<<"1">>), Phase(phaseSecondFork),
              WrapperImage, FlagsB) }

RuntimeValues == { RuntimeDocker, RuntimeNerdctl, <<"p">> }

\* What the factories main passes to Detect can do: docker.New may fail,
\* nerdctl.New never does, and both engines have a Ping method.
DockerOutcomes == {"newerr", "pingerr", "ok"}
NerdctlOutcomes == {"pingerr", "ok"}

---------------------------------------------------------------------------
(* State *)

NoStage == "none"

\* The exit status of a process: no value while it runs, one value after os.Exit.
NotExited == {}

\* A process record: its position, the locals of main and of the stage, the
\* engine calls it has made so far, and its exit status.
NewProc(pc) ==
    [pc |-> pc, phase |-> Empty, img |-> Empty, waitTime |-> Empty,
     sel |-> S(NoRuntime, FALSE, <<>>, Empty), stage |-> NoStage,
     info |-> ZeroInfo, err |-> FALSE, statusCode |-> 0, exit |-> NotExited,
     calls |-> <<>>, t |-> 0, slept |-> 0]

Call(op, img, info, ok) == [op |-> op, img |-> img, info |-> info, ok |-> ok]

\* The call rt.ImageExists(ctx, img), with what the inspection of the image
\* did and what the call returned
ImageExistsCall(img, result, exists) ==
    [op |-> "ImageExists", img |-> img, info |-> ZeroInfo, ok |-> exists,
     inspect |-> result]

Ids == 1..Len(proc)

\* A container of the wrapper image runs main; any other image runs the
\* user's workload.
StartPc(info) == IF info.Image = WrapperImage THEN "main" ELSE "target"

Init ==
    \E pf \in Profiles, rp \in OptEntry(runtimeEnv, RuntimeValues) :
        LET env == pf.pre \o << Sprintf(imageEnv, pf.image) >> \o pf.wait \o rp
                   \o pf.phase \o pf.post
            info == ContainerInfo(WrapperImage, env, pf.cmd, pf.flags.tty,
                                  pf.flags.aout, pf.flags.aerr, pf.flags.priv,
                                  pf.flags.binds, pf.flags.pid)
        IN  /\ containers = << [info |-> info, parent |-> 0] >>
            /\ proc = << NewProc("main") >>

---------------------------------------------------------------------------
(* Actions *)

Env(i) == containers[i].info.Env

Update(i, p) == proc' = [proc EXCEPT ![i] = p]

\* The stage returns to main with error err: main sets statusCode.
stageStatus(stage, err) ==
    IF ~err THEN 0
    ELSE IF stage = "second" THEN secondForkErrorCode ELSE firstForkErrorCode

Return(p, err) ==
    [p EXCEPT !.pc = "close", !.err = err, !.statusCode = stageStatus(p.stage, err)]

\* rt.RunContainer succeeded: a new container exists and its process starts.
Launch(i, request) ==
    LET created == RunContainer(proc[i].sel.rt, request)
    IN  containers' = Append(containers, [info |-> created, parent |-> i])

\* main, up to the return of runtime.Detect: the environment is read and
\* the engine is selected.
main(i) ==
    /\ proc[i].pc = "main"
    /\ \E phase \in Getenv(Env(i), phaseEnv), img \in Getenv(Env(i), imageEnv),
          waitTime \in Getenv(Env(i), waitTimeEnv),
          runtimePref \in Getenv(Env(i), runtimeEnv),
          ns \in Getenv(Env(i), nerdctlNamespaceEnv),
          host \in Getenv(Env(i), nerdctlHostEnv),
          d \in DockerOutcomes, n \in NerdctlOutcomes :
            LET nerdctlNS == IF ns = Empty THEN defaultNerdctlNamespace ELSE ns
                sel == Detect(runtimePref, d, n, nerdctlNS, nsenterEnabled(host))
            IN  Update(i, [proc[i] EXCEPT !.phase = phase, !.img = img,
                               !.waitTime = waitTime, !.sel = sel, !.pc = "detected"])
    /\ UNCHANGED containers

\* Faulty variant: main goes on to the switch without looking at the error of Detect.
mainSwitch_IgnoresError(p) ==
    [p EXCEPT !.stage = selectStage(p.phase),
              !.pc = IF selectStage(p.phase) = "second" THEN "secondFork"
                     ELSE "firstFork"]

\* main, after Detect: exit with runtimeClientErrorCode on an error, else the
\* switch on phase.  Only the selected engine is carried on (rt); the calls
\* Detect made are no longer part of the state of a process that goes on.
mainSwitch(p) ==
    IF p.sel.err
    THEN [p EXCEPT !.pc = "exited", !.exit = { runtimeClientErrorCode }]
    ELSE [p EXCEPT !.stage = selectStage(p.phase),
                   !.sel = S(p.sel.rt, FALSE, <<>>, Empty),
                   !.pc = IF selectStage(p.phase) = "second" THEN "secondFork"
                          ELSE "firstFork"]

main_Switch(i) ==
    /\ proc[i].pc = "detected"
    /\ Update(i, mainSwitch(proc[i]))
    /\ UNCHANGED containers

\* Faulty variant: firstFork goes on to InspectSelf whatever ImageExists returned.
firstFork_ImageExists_SkipsPull(i) ==
    /\ proc[i].pc = "firstFork"
    /\ \E result \in ImageInspectOutcomes :
        LET exists == ImageExists(proc[i].sel.rt, result) IN
        Update(i, [proc[i] EXCEPT
            !.calls = Append(@, Call("ImageExists", proc[i].img, ZeroInfo, exists)),
            !.pc = "ff_inspect"])
    /\ UNCHANGED containers

\* firstFork: rt.ImageExists(ctx, img)
firstFork_ImageExists(i) ==
    /\ proc[i].pc = "firstFork"
    /\ \E result \in ImageInspectOutcomes :
        LET exists == ImageExists(proc[i].sel.rt, result) IN
        Update(i, [proc[i] EXCEPT
            !.calls = Append(@, Call("ImageExists", proc[i].img, ZeroInfo, exists)),
            !.pc = IF exists THEN "ff_inspect" ELSE "ff_pull"])
    /\ UNCHANGED containers

\* Faulty variant: firstFork goes on to InspectSelf after a failed pull.
firstFork_PullImage_IgnoresError(i) ==
    /\ proc[i].pc = "ff_pull"
    /\ \E ok \in BOOLEAN :
        Update(i, [proc[i] EXCEPT
            !.calls = Append(@, Call("PullImage", proc[i].img, ZeroInfo, ok)),
            !.pc = "ff_inspect"])
    /\ UNCHANGED containers

\* firstFork: rt.PullImage(ctx, img); a failure is returned to main.
firstFork_PullImage(i) ==
    /\ proc[i].pc = "ff_pull"
    /\ \E ok \in BOOLEAN :
        LET p == [proc[i] EXCEPT
                    !.calls = Append(@, Call("PullImage", proc[i].img, ZeroInfo, ok))]
        IN  Update(i, IF ok THEN [p EXCEPT !.pc = "ff_inspect"] ELSE Return(p, TRUE))
    /\ UNCHANGED containers

\* firstFork: rt.InspectSelf(ctx); a failure is returned to main.
firstFork_InspectSelf(i) ==
    /\ proc[i].pc = "ff_inspect"
    /\ \E ok \in BOOLEAN :
        LET got == IF ok THEN InspectSelf(proc[i].sel.rt, containers[i].info)
                   ELSE ZeroInfo
            p == [proc[i] EXCEPT
                    !.calls = Append(@, Call("InspectSelf", Empty, got, ok)),
                    !.info = got]
        IN  Update(i, IF ok THEN [p EXCEPT !.pc = "ff_run"] ELSE Return(p, TRUE))
    /\ UNCHANGED containers

\* rt.RunContainer(ctx, request), returned to main by the stage: on success a
\* new container exists and the caller goes on at pc next; on failure the
\* error is returned.  The engine cannot create more than MaxContainers.
RunStep(i, request, next) ==
    \E ok \in BOOLEAN :
        LET p == [proc[i] EXCEPT
                    !.calls = Append(@, Call("RunContainer", Empty, request, ok)),
                    !.info = request]
        IN  /\ ok => Len(containers) < MaxContainers
            /\ IF ok
               THEN /\ Launch(i, request)
                    /\ proc' = Append(
                          [proc EXCEPT ![i] = [Return(p, FALSE) EXCEPT !.pc = next]],
                          NewProc(StartPc(RunContainer(p.sel.rt, request))))
               ELSE /\ Update(i, Return(p, TRUE))
                    /\ UNCHANGED containers

\* Faulty variant: firstFork goes on to the wait after launching the container.
firstFork_RunContainer_ThenWaits(i) ==
    /\ proc[i].pc = "ff_run"
    /\ RunStep(i, firstForkInfo(proc[i].info), "secondFork")

\* firstFork: the marker is appended and rt.RunContainer(ctx, info) is
\* returned to main.
firstFork_RunContainer(i) ==
    /\ proc[i].pc = "ff_run"
    /\ RunStep(i, firstForkInfo(proc[i].info), "close")

\* Faulty variant: secondFork runs the user image without sleeping first.
secondFork_Sleep_Skipped(i) ==
    /\ proc[i].pc = "secondFork"
    /\ Update(i, [proc[i] EXCEPT
            !.t = waitDuration(proc[i].waitTime),
            !.pc = "sf_inspect"])
    /\ UNCHANGED containers

\* secondFork: the wait duration is computed and time.Sleep(t) is called.
secondFork_Sleep(i) ==
    /\ proc[i].pc = "secondFork"
    /\ Update(i, [proc[i] EXCEPT
            !.t = waitDuration(proc[i].waitTime),
            !.calls = Append(@, Call("Sleep", Empty, ZeroInfo, TRUE)),
            !.pc = "sleeping"])
    /\ UNCHANGED containers

\* One second passes for a sleeping process.
Tick(i) ==
    /\ proc[i].pc = "sleeping"
    /\ proc[i].slept < proc[i].t
    /\ Update(i, [proc[i] EXCEPT !.slept = @ + 1])
    /\ UNCHANGED containers

\* Faulty variant: the sleep returns one second early.
secondFork_Wake_Early(i) ==
    /\ proc[i].pc = "sleeping"
    /\ proc[i].slept >= proc[i].t - 1
    /\ Update(i, [proc[i] EXCEPT !.pc = "sf_inspect"])
    /\ UNCHANGED containers

\* time.Sleep returns once the duration has elapsed (at once when t <= 0).
secondFork_Wake(i) ==
    /\ proc[i].pc = "sleeping"
    /\ proc[i].slept >= proc[i].t
    /\ Update(i, [proc[i] EXCEPT !.pc = "sf_inspect"])
    /\ UNCHANGED containers

\* runUserImage: rt.InspectSelf(ctx); a failure is returned to main.
runUserImage_InspectSelf(i) ==
    /\ proc[i].pc = "sf_inspect"
    /\ \E ok \in BOOLEAN :
        LET got == IF ok THEN InspectSelf(proc[i].sel.rt, containers[i].info)
                   ELSE ZeroInfo
            p == [proc[i] EXCEPT
                    !.calls = Append(@, Call("InspectSelf", Empty, got, ok)),
                    !.info = got]
        IN  Update(i, IF ok THEN [p EXCEPT !.pc = "sf_run"] ELSE Return(p, TRUE))
    /\ UNCHANGED containers

\* runUserImage: image, command and environment are rewritten and
\* rt.RunContainer(ctx, info) is returned to main.
runUserImage_RunContainer(i) ==
    /\ proc[i].pc = "sf_run"
    /\ RunStep(i, runUserImageInfo(proc[i].info, proc[i].img, SelfPath), "close")

\* Faulty variant: an error of Close becomes the exit status.
exitStatus_CloseError(statusCode, closeErr) == IF closeErr THEN 1 ELSE statusCode

\* main: the exit status after rt.Close() returned closeErr, which is discarded.
exitStatus(statusCode, closeErr) == statusCode

\* main: _ = rt.Close(); os.Exit(statusCode)
main_Exit(i) ==
    /\ proc[i].pc = "close"
    /\ \E closeErr \in BOOLEAN :
        Update(i, [proc[i] EXCEPT
            !.calls = Append(@, Call("Close", Empty, ZeroInfo, TRUE)),
            !.exit = { exitStatus(proc[i].statusCode, closeErr) },
            !.pc = "exited"])
    /\ UNCHANGED containers

Running == {"main", "detected", "firstFork", "ff_pull", "ff_inspect", "ff_run",
            "secondFork", "sleeping", "sf_inspect", "sf_run"}

\* A wrapper process is terminated from outside at any point before its stage
\* has returned to main.
Kill(i) ==
    /\ proc[i].pc \in Running
    /\ Update(i, [proc[i] EXCEPT !.pc = "killed"])
    /\ UNCHANGED containers

\* The user's container runs to a result of its own.
Target(i) ==
    /\ proc[i].pc = "target"
    /\ \E r \in {"target_ok", "target_failed"} : Update(i, [proc[i] EXCEPT !.pc = r])
    /\ UNCHANGED containers

Step(i) ==
    \/ main(i)
    \/ main_Switch(i)
    \/ firstFork_ImageExists(i)
    \/ firstFork_PullImage(i)
    \/ firstFork_InspectSelf(i)
    \/ firstFork_RunContainer(i)
    \/ secondFork_Sleep(i)
    \/ Tick(i)
    \/ secondFork_Wake(i)
    \/ runUserImage_InspectSelf(i)
    \/ runUserImage_RunContainer(i)
    \/ main_Exit(i)

Next ==
    \/ \E i \in Ids : main(i)
    \/ \E i \in Ids : main_Switch(i)
    \/ \E i \in Ids : firstFork_ImageExists(i)
    \/ \E i \in Ids : firstFork_PullImage(i)
    \/ \E i \in Ids : firstFork_InspectSelf(i)
    \/ \E i \in Ids : firstFork_RunContainer(i)
    \/ \E i \in Ids : secondFork_Sleep(i)
    \/ \E i \in Ids : Tick(i)
    \/ \E i \in Ids : secondFork_Wake(i)
    \/ \E i \in Ids : runUserImage_InspectSelf(i)
    \/ \E i \in Ids : runUserImage_RunContainer(i)
    \/ \E i \in Ids : main_Exit(i)
    \/ \E i \in Ids : Kill(i)
    \/ \E i \in Ids : Target(i)

Spec == Init /\ [][Next]_vars

\* Every process that is not terminated from outside keeps running: each of
\* its steps is a call that returns, and a sleeping process sees time pass.
FairSpec == Spec /\ \A i \in 1..MaxContainers : WF_vars(i \in Ids /\ Step(i))

---------------------------------------------------------------------------
(* runtime.Detect on its own: src/runtime/detect.go, lines 51-122 *)

\* Preference strings: the four the switch of Detect knows and two it does not.
Preferences == { RuntimeDocker, RuntimeNerdctl, RuntimeAuto, Empty, <<"p">>,
                 <<"D","o","c","k","e","r">> }

\* Namespace qualifiers: none, the default main passes, another one.
Namespaces == { Empty, defaultNerdctlNamespace, <<"k">> }

\* A call of Detect that has not returned yet: its arguments, d and n being
\* what dockerFn and nerdctlFn and the engines they build do.
DetectCall(preference, d, n, nerdctlNamespace, nsenterHost) ==
    [pc |-> "Detect", preference |-> preference, d |-> d, n |-> n,
     nerdctlNamespace |-> nerdctlNamespace, nsenterHost |-> nsenterHost,
     sel |-> S(NoRuntime, FALSE, <<>>, Empty)]

\* Two calls of Detect with the same preference and the same factories, each
\* with a namespace qualifier and a host-namespace flag of its own.  No
\* container is involved.
DetectInit ==
    \E preference \in Preferences, d \in FactoryOutcomes, n \in FactoryOutcomes,
       ns1 \in Namespaces, ns2 \in Namespaces, h1 \in BOOLEAN, h2 \in BOOLEAN :
        /\ containers = <<>>
        /\ proc = << DetectCall(preference, d, n, ns1, h1),
                     DetectCall(preference, d, n, ns2, h2) >>

\* Detect runs and returns.
Detect_Return(i) ==
    /\ proc[i].pc = "Detect"
    /\ Update(i, [proc[i] EXCEPT
            !.sel = Detect(proc[i].preference, proc[i].d, proc[i].n,
                           proc[i].nerdctlNamespace, proc[i].nsenterHost),
            !.pc = "returned"])
    /\ UNCHANGED containers

DetectNext == \E i \in Ids : Detect_Return(i)

DetectSpec == DetectInit /\ [][DetectNext]_vars

---------------------------------------------------------------------------
(* The wait of secondFork with the widths of the program's integers:
   src/unnamed/part_004, lines 133-141.  A 64-bit value is four limbs of 16
   bits, least significant first, in two's complement. *)

LimbBase == 2^16

Zero64 == <<0, 0, 0, 0>>

\* 2^63 and 2^31
TwoPow63 == <<0, 0, 0, LimbBase \div 2>>
TwoPow31 == <<0, LimbBase \div 2, 0, 0>>

\* The limbs of v * m + c; the last limb of the result is the carry out of v.
RECURSIVE mulAdd(_, _, _)
mulAdd(v, m, c) ==
    IF v = <<>> THEN << c >>
    ELSE LET x == Head(v) * m + c
         IN  << x % LimbBase >> \o mulAdd(Tail(v), m, x \div LimbBase)

Low64(x) == SubSeq(x, 1, 4)

\* a < b, both unsigned
Less64(a, b) == \E k \in 1..4 : a[k] < b[k] /\ \A j \in (k+1)..4 : a[j] = b[j]

\* The sign bit of a two's complement value
IsNeg64(v) == v[4] >= LimbBase \div 2

\* -v, modulo 2^64
Neg64(v) == Low64(mulAdd([k \in 1..4 |-> LimbBase - 1 - v[k]], 1, 1))

\* The unsigned value of a string of digits, and whether it left 64 bits
RECURSIVE ParseUint(_)
ParseUint(s) ==
    IF s = Empty THEN [v |-> Zero64, over |-> FALSE]
    ELSE LET p == ParseUint(SubSeq(s, 1, Len(s) - 1))
             x == mulAdd(p.v, 10, DigitVal(s[Len(s)]))
         IN  [v |-> Low64(x), over |-> p.over \/ x[5] # 0]

\* The widths of int in the builds of the program (goarch arm; arm64, amd64)
IntSizes == {32, 64}

\* strconv.Atoi(s) with int of intSize bits: ok is err == nil (the syntax is
\* right and the value is in the range of int); i is the value, as int64.
Atoi64(s, intSize) ==
    LET neg == s # Empty /\ s[1] = "-"
        u == IF AtoiOk(s) THEN ParseUint(AtoiBody(s))
             ELSE [v |-> Zero64, over |-> FALSE]
        limit == IF intSize = 64 THEN TwoPow63 ELSE TwoPow31
    IN  [ok |-> /\ AtoiOk(s)
                /\ ~u.over
                /\ (Less64(u.v, limit) \/ (neg /\ u.v = limit)),
         i |-> IF neg THEN Neg64(u.v) ELSE u.v]

\* time.Duration(i) * time.Second: a multiplication of int64 by 10^9, which
\* wraps modulo 2^64.
timesSecond(i) ==
    Low64(mulAdd(Low64(mulAdd(Low64(mulAdd(i, 1000, 0)), 1000, 0)), 1000, 0))

\* k seconds as a time.Duration, for a small k
Seconds64(k) == timesSecond(<<k, 0, 0, 0>>)

\* secondFork: t, in nanoseconds
secondForkDuration(waitTime, intSize) ==
    IF waitTime # Empty /\ Atoi64(waitTime, intSize).ok
    THEN timesSecond(Atoi64(waitTime, intSize).i)
    ELSE Seconds64(defaultWaitTime)

\* The seconds of sleep the model follows
MaxSlept == 31

\* Values of WAIT_SECONDS
WaitValues ==
    { Empty, <<"3","0">>, <<"0">>, <<"a","b","c">>, <<"2">>, <<"x">>, <<"1","x">>,
      <<"-">>, <<"+","7">>, <<"0","0","7">>, <<"-","5">>, <<" ","3">>,
      <<"2","1","4","7","4","8","3","6","4","7">>,
      <<"2","1","4","7","4","8","3","6","4","8">>,
      <<"-","2","1","4","7","4","8","3","6","4","8">>,
      <<"9","2","2","3","3","7","2","0","3","6">>,
      <<"9","2","2","3","3","7","2","0","3","7">>,
      <<"1","8","4","4","6","7","4","4","0","7","4">>,
      <<"9","2","2","3","3","7","2","0","3","6","8","5","4","7","7","5","8","0","7">>,
      <<"9","2","2","3","3","7","2","0","3","6","8","5","4","7","7","5","8","0","8">>,
      <<"-","9","2","2","3","3","7","2","0","3","6","8","5","4","7","7","5","8","0","8">>,
      <<"1","8","4","4","6","7","4","4","0","7","3","7","0","9","5","5","1","6","2","6">> }

\* A process at the start of secondFork, in a build with int of intSize bits
WaitProc(waitTime, intSize) ==
    [pc |-> "secondFork", waitTime |-> waitTime, intSize |-> intSize,
     t |-> Zero64, slept |-> 0, err |-> FALSE]

\* One second-stage container, with WAIT_SECONDS unset or set to one of the
\* values; main has read it.
WaitInit ==
    \E e \in OptEntry(waitTimeEnv, WaitValues), intSize \in IntSizes :
        /\ containers = << [info |-> [ZeroInfo EXCEPT !.Image = WrapperImage, !.Env = e],
                            parent |-> 0] >>
        /\ \E waitTime \in Getenv(e, waitTimeEnv) :
              proc = << WaitProc(waitTime, intSize) >>

\* secondFork: t is computed and time.Sleep(t) is called.
secondFork_Sleep64(i) ==
    /\ proc[i].pc = "secondFork"
    /\ Update(i, [proc[i] EXCEPT
            !.t = secondForkDuration(proc[i].waitTime, proc[i].intSize),
            !.pc = "sleeping"])
    /\ UNCHANGED containers

\* One second passes for a sleeping process whose duration has not elapsed.
Tick64(i) ==
    /\ proc[i].pc = "sleeping"
    /\ proc[i].slept < MaxSlept
    /\ ~IsNeg64(proc[i].t)
    /\ Less64(Seconds64(proc[i].slept), proc[i].t)
    /\ Update(i, [proc[i] EXCEPT !.slept = @ + 1])
    /\ UNCHANGED containers

\* time.Sleep returns: at once for a zero or negative duration, else when the
\* duration has elapsed.
secondFork_Wake64(i) ==
    /\ proc[i].pc = "sleeping"
    /\ IsNeg64(proc[i].t) \/ ~Less64(Seconds64(proc[i].slept), proc[i].t)
    /\ Update(i, [proc[i] EXCEPT !.pc = "runUserImage"])
    /\ UNCHANGED containers

WaitNext ==
    \/ \E i \in Ids : secondFork_Sleep64(i)
    \/ \E i \in Ids : Tick64(i)
    \/ \E i \in Ids : secondFork_Wake64(i)

WaitSpec == WaitInit /\ [][WaitNext]_vars

---------------------------------------------------------------------------
(* stripEnv on its own: src/unnamed/part_004, lines 183-192 *)

\* The longest environment list stripEnv is applied to
MaxEnvLen == 3

\* Environment entries: two of key PATH (one with an empty value), one whose
\* key starts with PATH, one of key path, and two of other keys, one of them
\* with PATH= inside its value.
EnvEntries ==
    { PathA, <<"P","A","T","H","=">>, PathExt, <<"p","a","t","h","=","/","c">>,
      <<"H","=","r">>, <<"A","=","P","A","T","H","=","1">> }

\* The lists of at most n entries
RECURSIVE EnvLists(_)
EnvLists(n) ==
    IF n = 0 THEN { <<>> }
    ELSE LET shorter == EnvLists(n - 1)
         IN  shorter \cup { Append(l, e) : l \in { x \in shorter : Len(x) = n - 1 },
                                           e \in EnvEntries }

\* A call stripEnv(envs, "PATH") that has not returned yet
StripCall(envs) == [pc |-> "stripEnv", envs |-> envs, result |-> <<>>, again |-> <<>>]

StripInit ==
    \E envs \in EnvLists(MaxEnvLen) :
        /\ containers = <<>>
        /\ proc = << StripCall(envs) >>

\* stripEnv(envs, "PATH") returns.
stripEnv_Return(i) ==
    /\ proc[i].pc = "stripEnv"
    /\ Update(i, [proc[i] EXCEPT !.result = stripEnv(proc[i].envs, PathKey),
                                 !.pc = "stripped"])
    /\ UNCHANGED containers

\* stripEnv is applied to its own result.
stripEnv_Again(i) ==
    /\ proc[i].pc = "stripped"
    /\ Update(i, [proc[i] EXCEPT !.again = stripEnv(proc[i].result, PathKey),
                                 !.pc = "again"])
    /\ UNCHANGED containers

StripNext ==
    \/ \E i \in Ids : stripEnv_Return(i)
    \/ \E i \in Ids : stripEnv_Again(i)

StripSpec == StripInit /\ [][StripNext]_vars

---------------------------------------------------------------------------
(* mountOptions on its own: src/unnamed/part_005, lines 586-620 *)

\* The most options a Mode string of the model lists
MaxTokens == 2

\* Options as they are written in Mode: the keyword bind in two spellings,
\* the access options in two spellings and with blanks around them, two
\* propagation options, and the empty token.
ModeTokens ==
    { <<"b","i","n","d">>, <<"B","I","N","D">>, <<"r","w">>, <<"r","o">>, <<"R","O">>, <<" ","r","w"," ">>, <<"r","p","r","i","v","a","t","e">>, <<"R","p","r","i","v","a","t","e">>,
      <<"r","s","h","a","r","e","d">>, Empty }

\* The option lists of at most n tokens
RECURSIVE TokenLists(_)
TokenLists(n) ==
    IF n = 0 THEN { <<>> }
    ELSE LET shorter == TokenLists(n - 1)
         IN  shorter \cup { Append(l, t) : l \in { x \in shorter : Len(x) = n - 1 },
                                           t \in ModeTokens }

\* Mode strings: the option lists joined by commas, and the string nerdctl
\* packs everything into
Modes == { Join(l, <<",">>) : l \in TokenLists(MaxTokens) } \cup { <<"b","i","n","d",",","r","p","r","i","v","a","t","e",",","r","w">> }

Propagations == { Empty, <<"r","p","r","i","v","a","t","e">>, <<"R","P","R","I","V","A","T","E",",","r","o">>, <<"r","s","h","a","r","e","d">> }

\* A call mountOptions(m) that has not returned yet
MountCall(m) == [pc |-> "mountOptions", m |-> m, opts |-> <<>>]

MountInit ==
    \E mode \in Modes, propagation \in Propagations, rw \in BOOLEAN :
        /\ containers = <<>>
        /\ proc = << MountCall(mountEntry(<<"b","i","n","d">>, <<"/","s">>, <<"/","d">>, Empty, mode, rw,
                                          propagation)) >>

\* mountOptions(m) returns.
mountOptions_Return(i) ==
    /\ proc[i].pc = "mountOptions"
    /\ Update(i, [proc[i] EXCEPT !.opts = mountOptions(proc[i].m), !.pc = "returned"])
    /\ UNCHANGED containers

MountNext == \E i \in Ids : mountOptions_Return(i)

MountSpec == MountInit /\ [][MountNext]_vars

---------------------------------------------------------------------------
(* InspectSelf of the CLI engine on its own, with the stage that calls it:
   src/unnamed/part_005, lines 384-481, and src/unnamed/part_004, lines
   121-127 and 153-169 *)

\* The most entries of the Mounts array of an inspection
MaxMounts == 2

\* Mount entries: binds to ordinary destinations (one named by Target, one
\* with Target naming an internal destination behind a Destination of its
\* own, one next to an internal destination), binds to the three internal
\* destinations (one named by Target), a volume, and a bind without any
\* destination.
MountEntries ==
    { mountEntry(<<"b","i","n","d">>, <<"/","s">>, <<"/","d">>, Empty, <<"b","i","n","d",",","r","p","r","i","v","a","t","e",",","r","w">>, TRUE, Empty),
      mountEntry(<<"B","I","N","D">>, <<"/","a">>, Empty, <<"/","b">>, Empty, FALSE, Empty),
      mountEntry(<<"b","i","n","d">>, <<"/","x">>, <<"/","c">>, <<"/","e","t","c","/","h","o","s","t","s">>, Empty, TRUE, Empty),
      mountEntry(<<"b","i","n","d">>, <<"/","h">>, <<"/","e","t","c","/","h","o","s","t","s",".","d">>, Empty, <<"r","o">>, FALSE, <<"r","s","h","a","r","e","d">>),
      mountEntry(<<"B","i","n","d">>, <<"/","t">>, Empty, <<"/","e","t","c","/","h","o","s","t","s">>, Empty, TRUE, Empty),
      mountEntry(<<"b","i","n","d">>, <<"/","r">>, <<"/","e","t","c","/","r","e","s","o","l","v",".","c","o","n","f">>, Empty, <<"r","w">>, TRUE, <<"r","p","r","i","v","a","t","e">>),
      mountEntry(<<"b","i","n","d">>, <<"/","n">>, <<"/","e","t","c","/","h","o","s","t","n","a","m","e">>, <<"/","d">>, Empty, FALSE, Empty),
      mountEntry(<<"v","o","l","u","m","e">>, <<"/","v">>, <<"/","v">>, Empty, <<"z">>, TRUE, Empty),
      mountEntry(<<"b","i","n","d">>, <<"/","e">>, Empty, Empty, Empty, TRUE, Empty) }

\* The Mounts arrays of at most n entries
RECURSIVE MountLists(_)
MountLists(n) ==
    IF n = 0 THEN { <<>> }
    ELSE LET shorter == MountLists(n - 1)
         IN  shorter \cup { Append(l, m) : l \in { x \in shorter : Len(x) = n - 1 },
                                           m \in MountEntries }

\* The inspection of a wrapper container with the given mounts, explicit
\* binds, privilege and PID mode; nerdctl reports the command in Args.
Response(mounts, binds, priv, pid) ==
    inspectResponse(SelfPath, << Reboot >>, mounts, WrapperImage, << PathA >>, <<>>,
                    << SelfPath >>, TRUE, FALSE, TRUE, priv, binds, pid)

\* Inspections: what nerdctl reports (mounts, nothing in HostConfig), what
\* an engine that fills HostConfig reports, and every combination of an
\* inspected privilege with an inspected PID mode.
MountResponses == { Response(ml, <<>>, FALSE, Empty) : ml \in MountLists(MaxMounts) }

BindResponses ==
    { Response(ml, << <<"/","k",":","/","e","t","c","/","h","o","s","t","s">> >>, TRUE, HostPid) : ml \in MountLists(1) }

HostConfigResponses ==
    { Response(<<>>, <<>>, priv, pid) : priv \in BOOLEAN,
                                        pid \in { Empty, HostPid, <<"c","o","n","t","a","i","n","e","r",":","c">> } }

\* The inspection of another container, as the second element of a list
OtherResponse ==
    inspectResponse(Reboot, <<>>, <<>>, TargetImage, <<>>, << Reboot >>, <<>>, FALSE,
                    FALSE, FALSE, TRUE, <<>>, HostPid)

Object(resp) == JsonElement("object", resp)

\* Outputs of the inspect command: a list of one object, a list of two, the
\* object alone, and the outputs that hold no object: an empty list, null, a
\* list of a string, a list of null, a string, and text that is not JSON.
ListOutputs ==
    { JsonValue("array", << Object(r) >>) :
          r \in MountResponses \cup BindResponses \cup HostConfigResponses }
    \cup { JsonValue("array", << Object(r), Object(OtherResponse) >>) :
               r \in HostConfigResponses }

ObjectOutputs ==
    { JsonValue("object", << Object(r) >>) : r \in BindResponses \cup HostConfigResponses }

OddOutputs ==
    { JsonValue("array", <<>>), JsonValue("null", <<>>),
      JsonValue("array", << JsonElement("string", ZeroResponse) >>),
      JsonValue("array", << JsonElement("null", ZeroResponse) >>),
      JsonValue("string", <<>>), JsonValue("invalid", <<>>) }

\* /proc/self/status: all capabilities or not (one text ends in eight f
\* only), one NSpid entry or two, neither line, and a file that cannot be
\* read.
ProcFiles ==
    { ProcFile(TRUE, <<"C","a","p","E","f","f",":","\t","0","0","0","0","0","1","f","f","f","f","f","f","f","f","f","f","\n","N","S","p","i","d",":","\t","7","\n">>),
      ProcFile(TRUE, <<"C","a","p","E","f","f",":","\t","0","0","0","0","0","0","0","0","a","8","0","4","2","5","f","b","\n","N","S","p","i","d",":","\t","7","\t","1","\n">>),
      ProcFile(TRUE, <<"C","a","p","E","f","f",":","\t","0","0","0","0","0","0","0","0","f","f","f","f","f","f","f","f","\n","N","S","p","i","d",":","\t","7","\n">>),
      ProcFile(TRUE, <<"N","S","p","i","d",":","\t","7","\t","1","\n","C","a","p","E","f","f",":","\t","0","0","0","0","0","0","3","f","f","f","f","f","f","f","f","f","\n">>),
      ProcFile(TRUE, <<"N","a","m","e",":","\t","w","\n">>),
      ProcFile(FALSE, Empty) }

\* What fails before the output is decoded: nothing, os.Hostname, or the
\* inspect command
InspectFaults == {"none", "hostname", "inspect"}

\* A stage about to call InspectSelf
InspectCall(stage, fault, out, status) ==
    [pc |-> "InspectSelf", stage |-> stage, fault |-> fault, out |-> out,
     status |-> status, ret |-> InspectResult(ZeroInfo, FALSE, <<>>)]

InspectInit ==
    \E stage \in {"first", "second"},
       out \in ListOutputs \cup ObjectOutputs \cup OddOutputs,
       status \in ProcFiles,
       fault \in InspectFaults :
        /\ fault # "none" => (out = JsonValue("null", <<>>) /\ status = ProcFile(FALSE, Empty))
        /\ containers = <<>>
        /\ proc = << InspectCall(stage, fault, out, status) >>

\* firstFork and runUserImage: rt.InspectSelf(ctx) returns, and the stage
\* returns its error when there is one.
stage_InspectSelf(i) ==
    /\ proc[i].pc = "InspectSelf"
    /\ \E ret \in { Nerdctl_Inspect(proc[i].fault, proc[i].out, proc[i].status) } :
          Update(i, [proc[i] EXCEPT !.ret = ret,
                                    !.pc = IF ret.err THEN "failed" ELSE "run"])
    /\ UNCHANGED containers

\* firstFork and runUserImage: the request is prepared and rt.RunContainer
\* creates the container.
stage_RunContainer(i) ==
    /\ proc[i].pc = "run"
    /\ LET request == IF proc[i].stage = "first" THEN firstForkInfo(proc[i].ret.info)
                      ELSE runUserImageInfo(proc[i].ret.info, TargetImage, SelfPath)
       IN  containers' = Append(containers, [info |-> Nerdctl_RunContainer(request),
                                             request |-> request, parent |-> i])
    /\ Update(i, [proc[i] EXCEPT !.pc = "launched"])

InspectNext ==
    \/ \E i \in Ids : stage_InspectSelf(i)
    \/ \E i \in Ids : stage_RunContainer(i)

InspectSpec == InspectInit /\ [][InspectNext]_vars

---------------------------------------------------------------------------
(* main of the first container on its own, with what the engine answered to
   ImageExists and to Close: src/unnamed/part_004, lines 53-128 *)

\* The wrapper process the orchestrator started
IsFirst(i) == containers[i].parent = 0

\* firstFork: rt.ImageExists(ctx, img), the call recorded with what the
\* inspection of the image did.
firstFork_ImageExists_Logged(i) ==
    /\ proc[i].pc = "firstFork"
    /\ \E result \in ImageInspectOutcomes :
        LET exists == ImageExists(proc[i].sel.rt, result) IN
        Update(i, [proc[i] EXCEPT
            !.calls = Append(@, ImageExistsCall(proc[i].img, result, exists)),
            !.pc = IF exists THEN "ff_inspect" ELSE "ff_pull"])
    /\ UNCHANGED containers

\* Faulty variant: main exits without closing the engine.
main_Exit_Logged_NoClose(i) ==
    /\ proc[i].pc = "close"
    /\ Update(i, [proc[i] EXCEPT
            !.exit = { proc[i].statusCode },
            !.pc = "exited"])
    /\ UNCHANGED containers

\* main: _ = rt.Close(); os.Exit(statusCode), the call recorded with what
\* Close returned.
main_Exit_Logged(i) ==
    /\ proc[i].pc = "close"
    /\ \E closeErr \in BOOLEAN :
        Update(i, [proc[i] EXCEPT
            !.calls = Append(@, Call("Close", Empty, ZeroInfo, ~closeErr)),
            !.exit = { exitStatus(proc[i].statusCode, closeErr) },
            !.pc = "exited"])
    /\ UNCHANGED containers

MainNext ==
    \/ \E i \in Ids : IsFirst(i) /\ main(i)
    \/ \E i \in Ids : IsFirst(i) /\ main_Switch(i)
    \/ \E i \in Ids : IsFirst(i) /\ firstFork_ImageExists_Logged(i)
    \/ \E i \in Ids : IsFirst(i) /\ firstFork_PullImage(i)
    \/ \E i \in Ids : IsFirst(i) /\ firstFork_InspectSelf(i)
    \/ \E i \in Ids : IsFirst(i) /\ firstFork_RunContainer(i)
    \/ \E i \in Ids : IsFirst(i) /\ secondFork_Sleep(i)
    \/ \E i \in Ids : IsFirst(i) /\ Tick(i)
    \/ \E i \in Ids : IsFirst(i) /\ secondFork_Wake(i)
    \/ \E i \in Ids : IsFirst(i) /\ runUserImage_InspectSelf(i)
    \/ \E i \in Ids : IsFirst(i) /\ runUserImage_RunContainer(i)
    \/ \E i \in Ids : IsFirst(i) /\ main_Exit_Logged(i)

MainSpec == Init /\ [][MainNext]_vars

---------------------------------------------------------------------------
(* Properties *)

Calls(i) == proc[i].calls

Has(i, op) == \E k \in DOMAIN Calls(i) : Calls(i)[k].op = op

Children(i) == { j \in Ids : containers[j].parent = i }

\* The calls of the stage of process i that returned an error
FailedCalls(i) ==
    { k \in DOMAIN Calls(i) : ~Calls(i)[k].ok /\ Calls(i)[k].op \notin {"ImageExists", "Close"} }

\* C1, first part: a first-stage process never sleeps, makes no call but Close
\* after RunContainer, and once the container it launched exists its status is
\* already 0, whatever that container goes on to do.
C1_NoWait ==
    \A i \in Ids : proc[i].stage = "first" =>
        /\ ~Has(i, "Sleep")
        /\ proc[i].slept = 0
        /\ \A k, m \in DOMAIN Calls(i) :
              (Calls(i)[k].op = "RunContainer" /\ m > k) => Calls(i)[m].op = "Close"
        /\ Children(i) # {} =>
              /\ proc[i].pc \in {"close", "exited"}
              /\ proc[i].statusCode = 0
              /\ proc[i].pc = "exited" => proc[i].exit = {0}

\* C1, second part: after RunContainer has returned to a first-stage process,
\* no step of any process changes its status, and it exits with that status.
C1_StatusFixed ==
    \A i \in Ids : (proc[i].stage = "first" /\ Has(i, "RunContainer")) =>
        /\ proc'[i].statusCode = proc[i].statusCode
        /\ proc'[i].pc = "exited" => proc'[i].exit = { proc[i].statusCode }

\* C1: the first-stage process never waits (neither sleeps nor waits on the
\* container it launches), its exit status is fixed when RunContainer returns
\* and is not changed by what the launched containers do, and unless it is
\* terminated from outside it exits.
C1_FirstStageExits ==
    /\ []C1_NoWait
    /\ [][C1_StatusFixed]_vars
    /\ \A i \in 1..MaxContainers :
          (i \in Ids /\ proc[i].stage = "first")
              ~> (i \in Ids /\ proc[i].pc \in {"exited", "killed"})

\* C1 witness: a first-stage process has exited 0 and the second-stage
\* process it launched has exited with the second-stage failure code.
C1_Witness ==
    \E i \in Ids : \E j \in Children(i) :
        /\ proc[i].stage = "first" /\ proc[i].pc = "exited" /\ proc[i].exit = {0}
        /\ proc[j].stage = "second" /\ proc[j].pc = "exited" /\ proc[j].exit = {2}

\* C2: in the first stage the calls are ImageExists(IMAGE), PullImage(IMAGE)
\* only after ImageExists returned false, InspectSelf only after the image was
\* found or pulled, RunContainer only after a successful InspectSelf.
C2_FirstStageOrder ==
    \A i \in Ids : proc[i].stage = "first" =>
        \A k \in DOMAIN Calls(i) :
            LET c == Calls(i) IN
            /\ c[k].op = "ImageExists" =>
                  k = 1 /\ c[k].img \in Getenv(Env(i), imageEnv)
            /\ c[k].op = "PullImage" =>
                  /\ k = 2 /\ c[1].op = "ImageExists" /\ ~c[1].ok
                  /\ c[k].img \in Getenv(Env(i), imageEnv)
            /\ c[k].op = "InspectSelf" =>
                  /\ c[1].op = "ImageExists"
                  /\ IF c[1].ok THEN k = 2
                     ELSE k = 3 /\ c[2].op = "PullImage" /\ c[2].ok
            /\ c[k].op = "RunContainer" =>
                  k > 1 /\ c[k-1].op = "InspectSelf" /\ c[k-1].ok

\* C2 witness: a first-stage process has pulled the image and launched.
C2_Witness ==
    \E i \in Ids : proc[i].stage = "first" /\ Has(i, "PullImage") /\ Has(i, "RunContainer")

\* C3: in the second stage the calls are Sleep, then InspectSelf once the wait
\* is over, then RunContainer; there is no ImageExists or PullImage; and what
\* InspectSelf returns and RunContainer is given is the configuration of the
\* second-stage container itself.
C3_SecondStageOrder ==
    \A i \in Ids : proc[i].stage = "second" =>
        \A k \in DOMAIN Calls(i) :
            LET c == Calls(i) IN
            /\ c[k].op \notin {"ImageExists", "PullImage"}
            /\ c[k].op = "Sleep" => k = 1
            /\ c[k].op = "InspectSelf" =>
                  /\ k = 2 /\ c[1].op = "Sleep"
                  /\ proc[i].slept >= proc[i].t
                  /\ c[k].ok =>
                        /\ c[k].info.Env = containers[i].info.Env
                        /\ c[k].info.Cmd = containers[i].info.Cmd
                        /\ c[k].info.Image = containers[i].info.Image
                        /\ c[k].info.AttachStdout = containers[i].info.AttachStdout
                        /\ c[k].info.AttachStderr = containers[i].info.AttachStderr
            /\ c[k].op = "RunContainer" =>
                  /\ k = 3 /\ c[2].op = "InspectSelf" /\ c[2].ok
                  /\ c[k].info.Tty = containers[i].info.Tty
                  /\ c[k].info.AttachStdout = containers[i].info.AttachStdout
                  /\ c[k].info.AttachStderr = containers[i].info.AttachStderr
                  /\ c[k].info.Binds = containers[i].info.Binds
                  /\ \A e \in DOMAIN c[k].info.Env :
                        \E f \in DOMAIN containers[i].info.Env :
                            c[k].info.Env[e] = containers[i].info.Env[f]

\* C3 witness: a second-stage process launched after a wait of some seconds,
\* in a container whose attach flags differ from those its parent captured.
C3_Witness ==
    \E i \in Ids :
        /\ proc[i].stage = "second" /\ Has(i, "RunContainer") /\ proc[i].t > 0
        /\ containers[i].parent # 0
        /\ containers[i].info.AttachStderr
              # containers[containers[i].parent].info.AttachStderr

\* The entry PHASE=SECOND_FORK
MarkerEntry == <<"P","H","A","S","E","=","S","E","C","O","N","D","_","F","O","R","K">>

\* The environment of container i has an entry of key PHASE.
MarkerPresent(i) ==
    \E k \in DOMAIN Env(i) : HasPrefix(Env(i)[k], <<"P","H","A","S","E","=">>)

\* C4 as claimed: a process that runs a stage runs the second stage whenever
\* the marker is present in its environment and the first stage only when it
\* is absent.
C4_StageByPresence ==
    \A i \in Ids : proc[i].stage # NoStage =>
        /\ MarkerPresent(i) => proc[i].stage = "second"
        /\ ~MarkerPresent(i) => proc[i].stage = "first"

\* C4 amended: the stage is selected by the value read for PHASE alone: the
\* second stage exactly when it is SECOND_FORK, the first stage for any other
\* value or none; a process runs at most one stage, and none when runtime
\* selection failed.
C4_StageByValue ==
    \A i \in Ids :
        /\ proc[i].stage = "second" =>
              proc[i].phase = <<"S","E","C","O","N","D","_","F","O","R","K">> /\ ~proc[i].sel.err
        /\ proc[i].stage = "first" =>
              proc[i].phase # <<"S","E","C","O","N","D","_","F","O","R","K">> /\ ~proc[i].sel.err
        /\ proc[i].stage # NoStage => proc[i].phase \in Getenv(Env(i), phaseEnv)
        /\ proc[i].pc \in {"firstFork", "ff_pull", "ff_inspect", "ff_run"} =>
              proc[i].stage = "first"
        /\ proc[i].pc \in {"secondFork", "sleeping", "sf_inspect", "sf_run"} =>
              proc[i].stage = "second"
        /\ proc[i].pc = "close" => proc[i].stage \in {"first", "second"}
        /\ proc[i].pc = "exited" => (proc[i].stage = NoStage <=> proc[i].sel.err)
        /\ proc[i].stage = "first" => ~Has(i, "Sleep")
        /\ proc[i].stage = "second" => ~Has(i, "ImageExists") /\ ~Has(i, "PullImage")

\* C4 witness: a process whose environment has the marker, with another
\* value, has run the first stage up to the launch.
C4_Witness ==
    \E i \in Ids :
        MarkerPresent(i) /\ proc[i].stage = "first" /\ Has(i, "RunContainer")

\* C5: what the first stage passes to RunContainer is what InspectSelf
\* returned with PHASE=SECOND_FORK appended as the last entry of Env and
\* nothing else changed; its Image is the image of the wrapper's container.
C5_FirstStageRequest ==
    \A i \in Ids : proc[i].stage = "first" =>
        \A k \in DOMAIN Calls(i) : Calls(i)[k].op = "RunContainer" =>
            /\ k > 1
            /\ Calls(i)[k].info = [Calls(i)[k-1].info EXCEPT !.Env = Append(@, MarkerEntry)]
            /\ Calls(i)[k].info.Image = containers[i].info.Image

\* C5 witness: a first-stage process whose target image is not its own image
\* has called RunContainer from an inspected environment of several entries.
C5_Witness ==
    \E i \in Ids : \E k \in DOMAIN Calls(i) :
        /\ proc[i].stage = "first" /\ Calls(i)[k].op = "RunContainer"
        /\ Len(Calls(i)[k-1].info.Env) >= 3
        /\ proc[i].img # Calls(i)[k].info.Image

NotPathEntry(e) == ~HasPrefix(e, <<"P","A","T","H","=">>)

\* C6 as claimed: what the second stage passes to RunContainer is what
\* InspectSelf returned with Image replaced by IMAGE, the leading token of Cmd
\* removed when it is the wrapper path, and the PATH entries of Env removed;
\* every other field, token and entry is unchanged.
C6_SecondStageRequest ==
    \A i \in Ids : proc[i].stage = "second" =>
        \A k \in DOMAIN Calls(i) : Calls(i)[k].op = "RunContainer" =>
            LET got == Calls(i)[k-1].info
                req == Calls(i)[k].info
            IN  /\ req.Image \in Getenv(Env(i), imageEnv)
                /\ req.Cmd = IF got.Cmd # <<>> /\ got.Cmd[1] = SelfPath
                             THEN Tail(got.Cmd) ELSE got.Cmd
                /\ req.Env = SelectSeq(got.Env, NotPathEntry)
                /\ req.Tty = got.Tty
                /\ req.AttachStdout = got.AttachStdout
                /\ req.AttachStderr = got.AttachStderr
                /\ req.Privileged = got.Privileged
                /\ req.Binds = got.Binds
                /\ req.PidMode = got.PidMode

\* The chain starts as the orchestrator starts it: no marker in the first
\* container, and a target image that is not the wrapper's image.
StartsFirstStage ==
    /\ ~MarkerPresent(1)
    /\ containers[1].info.Image \notin Getenv(Env(1), imageEnv)

\* No process was terminated from outside and no call has failed so far.
NoFailure ==
    \A i \in Ids : proc[i].pc # "killed" /\ ~proc[i].sel.err /\ FailedCalls(i) = {}

\* The RunContainer calls made so far in the whole chain
RunCalls ==
    UNION { { <<i, k>> : k \in { m \in DOMAIN Calls(i) : Calls(i)[m].op = "RunContainer" } } :
            i \in Ids }

TargetLaunched ==
    \E j \in Ids : containers[j].parent # 0
                   /\ containers[j].info.Image \in Getenv(Env(1), imageEnv)

\* C7, safety: at most two RunContainer calls are made; a container of the
\* target image is launched only by the one second-stage container, itself
\* launched by the first process with the wrapper image and the marker, and
\* only after that container has finished its wait.
C7_Safety ==
    StartsFirstStage =>
        /\ Cardinality(RunCalls) <= 2
        /\ \A j \in Ids :
              (containers[j].parent # 0
               /\ containers[j].info.Image \in Getenv(Env(1), imageEnv)) =>
                  LET s == containers[j].parent IN
                  /\ s = 2 /\ containers[s].parent = 1 /\ Children(1) = {s}
                  /\ proc[1].stage = "first" /\ proc[s].stage = "second"
                  /\ containers[s].info.Image = containers[1].info.Image
                  /\ containers[s].info.Env[Len(containers[s].info.Env)] = MarkerEntry
                  /\ Has(s, "Sleep") /\ proc[s].slept >= proc[s].t
                  /\ Cardinality(RunCalls) = 2

\* C7: from a first-stage start, unless a call fails or a process is
\* terminated, the chain launches the target container, through exactly one
\* second-stage container and with exactly two RunContainer calls.
C7_Chain ==
    /\ []C7_Safety
    /\ StartsFirstStage ~> (~NoFailure \/ TargetLaunched)

\* C7 witness: the whole chain has run without a failure.
C7_Witness ==
    /\ StartsFirstStage /\ NoFailure /\ TargetLaunched
    /\ proc[1].pc = "exited" /\ proc[2].pc = "exited" /\ proc[2].t > 0

\* C8, state part: a second-stage process inspects and launches only after
\* its full wait has elapsed, and one terminated before that has made neither
\* call and has launched nothing.
C8_WaitElapsed ==
    \A i \in Ids : proc[i].stage = "second" =>
        /\ (Has(i, "InspectSelf") \/ Has(i, "RunContainer") \/ Children(i) # {}) =>
              Has(i, "Sleep") /\ proc[i].slept >= proc[i].t
        /\ (proc[i].pc = "killed" /\ proc[i].slept < proc[i].t) =>
              ~Has(i, "InspectSelf") /\ ~Has(i, "RunContainer") /\ Children(i) = {}

\* C8, step part: a terminated process does nothing more, and the time slept
\* grows by one second at a time.
C8_Steps ==
    \A i \in Ids :
        /\ proc[i].pc = "killed" => proc'[i] = proc[i]
        /\ proc'[i].slept \in { proc[i].slept, proc[i].slept + 1 }

\* C8: the wait of the second stage is neither shortened nor skipped, and a
\* process terminated during it never inspects or launches.
C8_WaitNotShortened == []C8_WaitElapsed /\ [][C8_Steps]_vars

\* C8 witness: a second-stage process was terminated in the middle of its wait.
C8_Witness ==
    \E i \in Ids :
        /\ proc[i].stage = "second" /\ proc[i].pc = "killed"
        /\ 0 < proc[i].slept /\ proc[i].slept < proc[i].t

\* C9: a process that exits does so with 12 exactly when runtime selection
\* failed, 1 exactly when a call of its first stage failed, 2 exactly when a
\* call of its second stage failed, 0 exactly when its stage ran without a
\* failure.
C9_ExitStatus ==
    \A i \in Ids : proc[i].pc = "exited" =>
        /\ proc[i].exit \in { {0}, {1}, {2}, {12} }
        /\ proc[i].exit = {12} <=> proc[i].sel.err
        /\ proc[i].exit = {1} <=> (proc[i].stage = "first" /\ FailedCalls(i) # {})
        /\ proc[i].exit = {2} <=> (proc[i].stage = "second" /\ FailedCalls(i) # {})
        /\ proc[i].exit = {0} <=> (proc[i].stage # NoStage /\ FailedCalls(i) = {})

\* C9 witness: in one chain a process exited 0 and the next exited 12.
C9_Witness ==
    \E i, j \in Ids : /\ proc[i].pc = "exited" /\ proc[i].exit = {0}
                      /\ proc[j].pc = "exited" /\ proc[j].exit = {12}

\* C10: a process whose runtime selection failed has made no engine call, has
\* not waited, has run no stage and launched nothing, and exits with 12,
\* whatever its marker.
C10_SelectionFailure ==
    \A i \in Ids : proc[i].sel.err =>
        /\ Calls(i) = <<>>
        /\ proc[i].slept = 0
        /\ proc[i].stage = NoStage
        /\ Children(i) = {}
        /\ proc[i].pc \in {"detected", "exited", "killed"}
        /\ proc[i].pc = "exited" => proc[i].exit = {12}

\* C10 witness: a process marked for the second stage has exited after a
\* failed selection.
C10_Witness ==
    \E i \in Ids : /\ proc[i].sel.err /\ proc[i].pc = "exited"
                   /\ proc[i].phase = <<"S","E","C","O","N","D","_","F","O","R","K">>

\* The engine calls of a stage
EngineOps == {"ImageExists", "PullImage", "InspectSelf", "RunContainer"}

\* C11: in either stage each of ImageExists, PullImage, InspectSelf and
\* RunContainer is called at most once by a process; after a PullImage,
\* InspectSelf or RunContainer that returned an error the process makes no
\* call but Close, launches nothing, and its stage has returned the failure
\* to main.
C11_NoRetry ==
    \A i \in Ids :
        /\ \A k, m \in DOMAIN Calls(i) :
              (Calls(i)[k].op \in EngineOps /\ Calls(i)[k].op = Calls(i)[m].op) => k = m
        /\ \A k \in FailedCalls(i) :
              /\ \A m \in DOMAIN Calls(i) : m > k => Calls(i)[m].op = "Close"
              /\ Children(i) = {}
              /\ proc[i].pc \in {"close", "exited"}
              /\ proc[i].err
              /\ proc[i].statusCode = IF proc[i].stage = "second" THEN 2 ELSE 1

\* C11 witness: a first-stage process has exited after a failed pull, with
\* Close as its only later call.
C11_Witness ==
    \E i \in Ids :
        /\ proc[i].pc = "exited" /\ proc[i].exit = {1}
        /\ Len(Calls(i)) = 3
        /\ Calls(i)[2].op = "PullImage" /\ ~Calls(i)[2].ok
        /\ Calls(i)[3].op = "Close"

---------------------------------------------------------------------------
(* Properties of runtime.Detect, stated on the calls it made (sel.trace), the
   engine and error it returned (sel.rt, sel.err) and the prefix it handed to
   the CLI factory (sel.cli) *)

Returned(i) == proc[i].pc = "returned"

Trace(i) == proc[i].sel.trace

Made(i, call) == \E k \in DOMAIN Trace(i) : Trace(i)[k] = call

Times(i, call) == Cardinality({ k \in DOMAIN Trace(i) : Trace(i)[k] = call })

\* The place of the one occurrence of call among the calls of run i
At(i, call) == CHOOSE k \in DOMAIN Trace(i) : Trace(i)[k] = call

\* The attempt on an engine succeeds when its factory does and the engine has
\* no Ping method or answers the Ping.
AttemptOk(outcome) == outcome \in {"noping", "ok"}

IsAuto(i) == proc[i].preference \in { <<"a","u","t","o">>, <<>> }

\* C12: under the auto or empty preference the SDK engine is attempted first
\* (factory, then Ping) and the CLI engine only after a failed SDK attempt:
\* the SDK engine is returned whenever its attempt succeeds, without a call of
\* the CLI factory; the CLI engine when the SDK attempt fails and the CLI
\* attempt succeeds; an error and no engine when both fail.
C12_AutoOrder ==
    \A i \in Ids : (Returned(i) /\ IsAuto(i)) =>
        LET r == proc[i].sel IN
        /\ Trace(i)[1] = "dockerFn" /\ Times(i, "dockerFn") = 1
        /\ proc[i].d \in {"pingerr", "ok"} => Trace(i)[2] = "docker.Ping"
        /\ AttemptOk(proc[i].d) =>
              /\ r.rt = "docker" /\ ~r.err
              /\ ~Made(i, "nerdctlFn") /\ ~Made(i, "nerdctl.Ping")
        /\ ~AttemptOk(proc[i].d) =>
              /\ Times(i, "nerdctlFn") = 1
              /\ \A k \in DOMAIN Trace(i) :
                    Trace(i)[k] \in {"dockerFn", "docker.Ping", "docker.Close"}
                        => k < At(i, "nerdctlFn")
              /\ proc[i].n \in {"pingerr", "ok"} =>
                    Trace(i)[At(i, "nerdctlFn") + 1] = "nerdctl.Ping"
              /\ AttemptOk(proc[i].n) => r.rt = "nerdctl" /\ ~r.err
              /\ ~AttemptOk(proc[i].n) => r.rt = NoRuntime /\ r.err

\* C12 witness: under auto the SDK engine did not answer its Ping and the CLI
\* engine was returned.
C12_Witness ==
    \E i \in Ids : /\ Returned(i) /\ proc[i].preference = <<"a","u","t","o">>
                   /\ proc[i].d = "pingerr" /\ proc[i].n = "ok"
                   /\ proc[i].sel.rt = "nerdctl"

KnownPreferences == { <<"d","o","c","k","e","r">>, <<"n","e","r","d","c","t","l">>,
                      <<"a","u","t","o">>, <<>> }

\* C13: for a preference outside {"docker", "nerdctl", "auto", ""} Detect
\* returns an error and no engine and has called no factory, Ping or Close;
\* for one inside the set it calls at least one factory.
C13_UnknownPreference ==
    \A i \in Ids : Returned(i) =>
        /\ proc[i].preference \notin KnownPreferences =>
              /\ proc[i].sel.err /\ proc[i].sel.rt = NoRuntime
              /\ Trace(i) = <<>>
        /\ proc[i].preference \in KnownPreferences =>
              Made(i, "dockerFn") \/ Made(i, "nerdctlFn")

\* C13 witness: Detect has returned for a preference that differs from a
\* known one by the case of a letter, with both engines available.
C13_Witness ==
    \E i \in Ids : /\ Returned(i) /\ proc[i].preference = <<"D","o","c","k","e","r">>
                   /\ proc[i].d = "ok" /\ proc[i].n = "ok"

\* C14: with an explicit preference the other engine is never attempted: no
\* call of the CLI factory under "docker", none of the SDK factory under
\* "nerdctl"; when the factory or the Ping of the preferred engine fails,
\* Detect returns an error and no engine.
C14_NoFallback ==
    \A i \in Ids : Returned(i) =>
        /\ proc[i].preference = <<"d","o","c","k","e","r">> =>
              /\ ~Made(i, "nerdctlFn") /\ ~Made(i, "nerdctl.Ping")
              /\ Made(i, "dockerFn")
              /\ ~AttemptOk(proc[i].d) => proc[i].sel.err /\ proc[i].sel.rt = NoRuntime
              /\ AttemptOk(proc[i].d) => ~proc[i].sel.err /\ proc[i].sel.rt = "docker"
        /\ proc[i].preference = <<"n","e","r","d","c","t","l">> =>
              /\ ~Made(i, "dockerFn") /\ ~Made(i, "docker.Ping")
              /\ Made(i, "nerdctlFn")
              /\ ~AttemptOk(proc[i].n) => proc[i].sel.err /\ proc[i].sel.rt = NoRuntime
              /\ AttemptOk(proc[i].n) => ~proc[i].sel.err /\ proc[i].sel.rt = "nerdctl"

\* C14 witness: under "docker" the SDK factory failed while the CLI engine
\* was available, and Detect returned an error.
C14_Witness ==
    \E i \in Ids : /\ Returned(i) /\ proc[i].preference = <<"d","o","c","k","e","r">>
                   /\ proc[i].d = "newerr" /\ proc[i].n = "ok" /\ proc[i].sel.err

\* The engines that exist and are not closed after the first k calls of run i
Unclosed(i, k) ==
    LET early(call) == \E m \in 1..k : Trace(i)[m] = call IN
    { e \in {"docker", "nerdctl"} :
        /\ early(IF e = "docker" THEN "dockerFn" ELSE "nerdctlFn")
        /\ (IF e = "docker" THEN proc[i].d ELSE proc[i].n) # "newerr"
        /\ ~early(IF e = "docker" THEN "docker.Close" ELSE "nerdctl.Close") }

\* C15: an engine that was constructed and whose Ping failed is closed exactly
\* once, right after the Ping and so before Detect goes on or returns, and is
\* not returned; an engine that is returned was never closed; at no point of
\* the selection is more than one engine constructed and not closed.
C15_CloseOnFailedPing ==
    \A i \in Ids : Returned(i) =>
        /\ (Made(i, "docker.Ping") /\ proc[i].d = "pingerr") =>
              /\ Times(i, "docker.Close") = 1
              /\ At(i, "docker.Close") = At(i, "docker.Ping") + 1
              /\ proc[i].sel.rt # "docker"
              /\ Made(i, "nerdctlFn") => At(i, "docker.Close") < At(i, "nerdctlFn")
        /\ (Made(i, "nerdctl.Ping") /\ proc[i].n = "pingerr") =>
              /\ Times(i, "nerdctl.Close") = 1
              /\ At(i, "nerdctl.Close") = At(i, "nerdctl.Ping") + 1
              /\ proc[i].sel.rt # "nerdctl"
        /\ proc[i].sel.rt = "docker" => ~Made(i, "docker.Close")
        /\ proc[i].sel.rt = "nerdctl" => ~Made(i, "nerdctl.Close")
        /\ \A k \in 0..Len(Trace(i)) : Cardinality(Unclosed(i, k)) <= 1
        /\ proc[i].sel.rt = NoRuntime => Unclosed(i, Len(Trace(i))) = {}

\* C15 witness: in auto mode the Ping of both engines failed.
C15_Witness ==
    \E i \in Ids : /\ Returned(i) /\ proc[i].preference = <<>>
                   /\ proc[i].d = "pingerr" /\ proc[i].n = "pingerr"
                   /\ Len(Trace(i)) = 6

\* C16: an engine without a Ping method is returned as soon as its factory
\* has succeeded: the factory call is the last call Detect makes, and the
\* engine is neither pinged nor closed.
C16_NoPingIsReachable ==
    \A i \in Ids : Returned(i) =>
        /\ (Made(i, "dockerFn") /\ proc[i].d = "noping") =>
              /\ proc[i].sel.rt = "docker" /\ ~proc[i].sel.err
              /\ Trace(i)[Len(Trace(i))] = "dockerFn"
              /\ ~Made(i, "docker.Ping") /\ ~Made(i, "docker.Close")
        /\ (Made(i, "nerdctlFn") /\ proc[i].n = "noping") =>
              /\ proc[i].sel.rt = "nerdctl" /\ ~proc[i].sel.err
              /\ Trace(i)[Len(Trace(i))] = "nerdctlFn"
              /\ ~Made(i, "nerdctl.Ping") /\ ~Made(i, "nerdctl.Close")

\* C16 witness: under "nerdctl" a CLI engine without a Ping method was returned.
C16_Witness ==
    \E i \in Ids : /\ Returned(i) /\ proc[i].preference = <<"n","e","r","d","c","t","l">>
                   /\ proc[i].n = "noping" /\ proc[i].sel.rt = "nerdctl"

\* C17: whenever the CLI factory is called, the prefix it is given is the
\* nine nsenter tokens exactly when the host-namespace flag is true, then
\* "nerdctl", then "--namespace" and the namespace exactly when the namespace
\* qualifier is not empty.
C17_CliPrefix ==
    \A i \in Ids : (Returned(i) /\ Made(i, "nerdctlFn")) =>
        proc[i].sel.cli =
            (IF proc[i].nsenterHost
             THEN << <<"n","s","e","n","t","e","r">>, <<"-","t">>, <<"1">>, <<"-","m">>,
                     <<"-","u">>, <<"-","i">>, <<"-","n">>, <<"-","p">>, <<"-","-">> >>
             ELSE <<>>)
            \o << <<"n","e","r","d","c","t","l">> >>
            \o (IF proc[i].nerdctlNamespace # <<>>
                THEN << <<"-","-","n","a","m","e","s","p","a","c","e">>,
                        proc[i].nerdctlNamespace >>
                ELSE <<>>)

\* C17 witness: the CLI factory was called in two runs, in one with the flag
\* and a namespace, in the other with neither.
C17_Witness ==
    /\ Returned(1) /\ Returned(2) /\ Made(1, "nerdctlFn") /\ Made(2, "nerdctlFn")
    /\ proc[1].nsenterHost /\ proc[1].nerdctlNamespace = <<"k">>
    /\ ~proc[2].nsenterHost /\ proc[2].nerdctlNamespace = <<>>
    /\ Len(proc[1].sel.cli) = 12 /\ Len(proc[2].sel.cli) = 1

\* C18: two runs of Detect that differ only in the namespace qualifier and the
\* host-namespace flag make the same calls and return the same engine and
\* error when the preference is "docker", and when it is auto or empty and
\* the SDK attempt succeeds.
C18_SdkPathIndependent ==
    (/\ Returned(1) /\ Returned(2)
     /\ proc[1].preference = proc[2].preference
     /\ proc[1].d = proc[2].d /\ proc[1].n = proc[2].n
     /\ \/ proc[1].preference = <<"d","o","c","k","e","r">>
        \/ IsAuto(1) /\ AttemptOk(proc[1].d))
    => /\ Trace(1) = Trace(2)
       /\ proc[1].sel.rt = proc[2].sel.rt
       /\ proc[1].sel.err = proc[2].sel.err
       /\ proc[1].sel.cli = proc[2].sel.cli

\* C18 witness: two runs under "docker" that differ in both CLI parameters
\* have returned the SDK engine.
C18_Witness ==
    /\ Returned(1) /\ Returned(2)
    /\ proc[1].preference = <<"d","o","c","k","e","r">>
    /\ proc[1].nerdctlNamespace # proc[2].nerdctlNamespace
    /\ proc[1].nsenterHost # proc[2].nsenterHost
    /\ proc[1].sel.rt = "docker" /\ proc[2].sel.rt = "docker"

---------------------------------------------------------------------------
(* Properties of the wait, stated on decimal numerals: the nanoseconds of the
   duration handed to time.Sleep are written out in decimal and compared with
   the digits of WAIT_SECONDS followed by nine zeros *)

\* v \div 10 and v % 10, for an unsigned v
DivMod10(v) ==
    LET x4 == v[4]
        x3 == (x4 % 10) * LimbBase + v[3]
        x2 == (x3 % 10) * LimbBase + v[2]
        x1 == (x2 % 10) * LimbBase + v[1]
    IN  [q |-> <<x1 \div 10, x2 \div 10, x3 \div 10, x4 \div 10>>, r |-> x1 % 10]

RECURSIVE Decimal(_)
Decimal(v) ==
    IF v = Zero64 THEN <<>>
    ELSE Decimal(DivMod10(v).q) \o << Digits[DivMod10(v).r + 1] >>

\* The nanoseconds of duration t as a decimal numeral
Nanoseconds(t) ==
    IF t = Zero64 THEN <<"0">>
    ELSE IF IsNeg64(t) THEN <<"-">> \o Decimal(Neg64(t))
    ELSE Decimal(t)

RECURSIVE StripZeros(_)
StripZeros(s) == IF s # <<>> /\ s[1] = "0" THEN StripZeros(Tail(s)) ELSE s

Unsigned(s) == IF s # <<>> /\ s[1] \in {"+", "-"} THEN Tail(s) ELSE s

\* a <= b for two numerals of the same length
RECURSIVE NumeralLeq(_, _)
NumeralLeq(a, b) ==
    IF a = <<>> THEN TRUE
    ELSE IF a[1] # b[1] THEN DigitVal(a[1]) < DigitVal(b[1])
    ELSE NumeralLeq(Tail(a), Tail(b))

\* The largest magnitude of an int of intSize bits of the given sign
MaxMagnitude(intSize, negative) ==
    IF intSize = 64
    THEN <<"9","2","2","3","3","7","2","0","3","6","8","5","4","7","7","5","8","0">>
         \o (IF negative THEN <<"8">> ELSE <<"7">>)
    ELSE <<"2","1","4","7","4","8","3","6","4">>
         \o (IF negative THEN <<"8">> ELSE <<"7">>)

\* s is a decimal integer: an optional sign and at least one digit, of a value
\* an int of intSize bits holds.
IsInteger(s, intSize) ==
    LET dg == StripZeros(Unsigned(s))
        max == MaxMagnitude(intSize, s # <<>> /\ s[1] = "-")
    IN  /\ Unsigned(s) # <<>>
        /\ \A k \in DOMAIN Unsigned(s) : IsDigit(Unsigned(s)[k])
        /\ \/ Len(dg) < Len(max)
           \/ Len(dg) = Len(max) /\ NumeralLeq(dg, max)

\* n seconds in nanoseconds as a decimal numeral, for the integer n written s
SecondsOf(s) ==
    LET dg == StripZeros(Unsigned(s))
    IN  IF dg = <<>> THEN <<"0">>
        ELSE (IF s[1] = "-" THEN <<"-">> ELSE <<>>) \o dg
             \o <<"0","0","0","0","0","0","0","0","0">>

Waited(i) == proc[i].pc \in {"sleeping", "runUserImage"}

\* C19: the wait of the second stage is n seconds when WAIT_SECONDS is the
\* decimal integer n, and the default of 10 seconds when it is unset, empty or
\* not an integer; no value of WAIT_SECONDS makes the second stage fail.
C19_WaitParsing ==
    \A i \in Ids : Waited(i) =>
        /\ ~proc[i].err
        /\ IsInteger(proc[i].waitTime, proc[i].intSize) =>
              Nanoseconds(proc[i].t) = SecondsOf(proc[i].waitTime)
        /\ ~IsInteger(proc[i].waitTime, proc[i].intSize) =>
              Nanoseconds(proc[i].t) = <<"1","0","0","0","0","0","0","0","0","0","0">>

\* C20: for every value of WAIT_SECONDS the duration handed to time.Sleep is
\* not negative, and for a value accepted as the integer n it is exactly n
\* seconds: the multiplication by the nanoseconds of a second does not wrap.
C20_NonNegativeExact ==
    \A i \in Ids : Waited(i) =>
        /\ ~IsNeg64(proc[i].t)
        /\ Atoi64(proc[i].waitTime, proc[i].intSize).ok =>
              Nanoseconds(proc[i].t) = SecondsOf(proc[i].waitTime)

---------------------------------------------------------------------------
(* The second stage's command, environment and marker *)

\* C21 as claimed: the command the second stage forwards is the inspected
\* command without its leading token exactly when that token is the wrapper's
\* own path (os.Args[0]), a command that is the wrapper path alone included,
\* and the inspected command unchanged otherwise.
C21_CommandStrip ==
    \A i \in Ids : proc[i].stage = "second" =>
        \A k \in DOMAIN Calls(i) : Calls(i)[k].op = "RunContainer" =>
            LET inspected == Calls(i)[k-1].info.Cmd
                forwarded == Calls(i)[k].info.Cmd
            IN  IF inspected # <<>> /\ inspected[1] = <<"/","w">>
                THEN forwarded = Tail(inspected)
                ELSE forwarded = inspected

\* The key of an environment entry: its text before the first "="
KeyOf(e) ==
    IF \E k \in DOMAIN e : e[k] = "="
    THEN SubSeq(e, 1, (CHOOSE k \in DOMAIN e : e[k] = "=" /\ \A j \in 1..(k-1) : e[j] # "=") - 1)
    ELSE e

KeyIsNotPath(e) == KeyOf(e) # <<"P","A","T","H">>

LaunchOf(j) ==
    LET i == containers[j].parent
    IN  Calls(i)[CHOOSE k \in DOMAIN Calls(i) : Calls(i)[k].op = "RunContainer"]

\* C23: in both engines the container RunContainer creates has the Image, Tty,
\* Privileged and PidMode of the ContainerInfo it was given; in the first
\* stage, which re-submits what it inspected, these are the four values
\* InspectSelf returned.
C23_PassThrough ==
    \A j \in Ids : containers[j].parent # 0 =>
        LET i == containers[j].parent
            k == CHOOSE m \in DOMAIN Calls(i) : Calls(i)[m].op = "RunContainer"
            same(a, b) == /\ a.Image = b.Image /\ a.Tty = b.Tty
                          /\ a.Privileged = b.Privileged /\ a.PidMode = b.PidMode
        IN  /\ same(containers[j].info, LaunchOf(j).info)
            /\ proc[i].stage = "first" => same(containers[j].info, Calls(i)[k-1].info)

\* C23 witness: in one chain the CLI engine and the SDK engine have each
\* launched a container in the host PID namespace with a TTY.
C23_Witness ==
    \E j, m \in Ids :
        /\ containers[j].parent # 0 /\ containers[m].parent # 0
        /\ proc[containers[j].parent].sel.rt = "nerdctl"
        /\ proc[containers[m].parent].sel.rt = "docker"
        /\ containers[j].info.PidMode = <<"h","o","s","t">> /\ containers[j].info.Tty
        /\ containers[m].info.PidMode = <<"h","o","s","t">> /\ containers[m].info.Tty

---------------------------------------------------------------------------
(* The image check of the first stage, the marker in the second stage, and
   the release of the engine *)

\* C26: in the first stage PullImage is called exactly when ImageExists
\* returned false; ImageExists returns no error: whenever the inspection of
\* the image does not find it, an unreachable engine included, it returns
\* false and the stage goes on to the pull; when the image is found no pull
\* is made.
C26_PullWhenAbsent ==
    \A i \in Ids : (proc[i].stage = "first" /\ Calls(i) # <<>>) =>
        LET c == Calls(i) IN
        /\ c[1].op = "ImageExists"
        /\ c[1].ok <=> c[1].inspect = "found"
        /\ Len(c) = 1 => ~proc[i].err /\ proc[i].pc \in {"ff_pull", "ff_inspect", "killed"}
        /\ ~c[1].ok =>
              /\ Len(c) = 1 => proc[i].pc \in {"ff_pull", "killed"}
              /\ Len(c) > 1 => c[2].op = "PullImage"
        /\ c[1].ok => ~Has(i, "PullImage")

\* C26 witness: the inspection of the image failed because the engine could
\* not be reached, ImageExists of the docker engine returned false, and the
\* image was then pulled.
C26_Witness ==
    \E i \in Ids :
        /\ proc[i].sel.rt = "docker" /\ proc[i].stage = "first"
        /\ Len(Calls(i)) > 1
        /\ Calls(i)[1].inspect = "unreachable" /\ ~Calls(i)[1].ok
        /\ Calls(i)[2].op = "PullImage"

HasMarker(env) ==
    \E k \in DOMAIN env :
        env[k] = <<"P","H","A","S","E","=","S","E","C","O","N","D","_","F","O","R","K">>

\* Every entry of key PHASE in env is the marker
OnlyMarker(env) ==
    \A k \in DOMAIN env :
        HasPrefix(env[k], <<"P","H","A","S","E","=">>) =>
            env[k] = <<"P","H","A","S","E","=","S","E","C","O","N","D","_","F","O","R","K">>

\* C29, state part: what the second stage launches still has the entry
\* PHASE=SECOND_FORK of the second-stage container; a container it launches
\* from the wrapper's own image therefore runs the second stage again.
C29_MarkerKept ==
    \A i \in Ids : proc[i].stage = "second" =>
        /\ HasMarker(Env(i))
        /\ \A k \in DOMAIN Calls(i) :
              Calls(i)[k].op = "RunContainer" => HasMarker(Calls(i)[k].info.Env)
        /\ \A j \in Children(i) :
              /\ HasMarker(Env(j))
              /\ (containers[j].info.Image = <<"w","d">> /\ OnlyMarker(Env(j))) =>
                    /\ proc[j].pc # "target"
                    /\ proc[j].stage \in {NoStage, "second"}
                    /\ proc[j].pc \notin {"firstFork", "ff_pull", "ff_inspect", "ff_run"}

\* C29: the second stage does not remove the marker, so when the target image
\* is the wrapper image the chain does not end by itself: every second-stage
\* process whose target is the wrapper image launches, unless it is
\* terminated or one of its calls fails, one more container of the wrapper
\* image with the marker, which enters the second stage in turn.
C29_EndlessChain ==
    /\ []C29_MarkerKept
    /\ \A i \in 1..MaxContainers :
          (i \in Ids /\ proc[i].stage = "second" /\ proc[i].img = <<"w","d">>)
              ~> (/\ i \in Ids
                  /\ \/ proc[i].pc = "killed"
                     \/ FailedCalls(i) # {}
                     \/ \E j \in Children(i) :
                           /\ containers[j].info.Image = <<"w","d">>
                           /\ HasMarker(Env(j)))

\* C29 witness: a chain of three containers of the wrapper image in which the
\* second and the third were launched by a second stage and the third has
\* entered the second stage itself.
C29_Witness ==
    /\ Len(containers) >= 3
    /\ proc[1].stage = "second" /\ proc[2].stage = "second" /\ proc[3].stage = "second"
    /\ containers[2].parent = 1 /\ containers[3].parent = 2
    /\ containers[3].info.Image = <<"w","d">>
    /\ proc[1].exit = {0} /\ proc[2].exit = {0}

\* The places of the Close calls of process i
Closes(i) == { k \in DOMAIN Calls(i) : Calls(i)[k].op = "Close" }

\* C30: a process whose runtime selection succeeded calls Close exactly once,
\* as its last call and when it exits, after a stage that succeeded and after
\* one that failed alike; its exit status is the status of the stage whatever
\* Close returned; a process whose selection failed calls Close on no engine.
C30_CloseOnce ==
    \A i \in Ids :
        /\ Cardinality(Closes(i)) <= 1
        /\ \A k \in Closes(i) :
              /\ k = Len(Calls(i)) /\ k > 1
              /\ proc[i].pc = "exited"
              /\ ~proc[i].sel.err /\ proc[i].stage \in {"first", "second"}
        /\ (proc[i].pc = "exited" /\ ~proc[i].sel.err) =>
              /\ Cardinality(Closes(i)) = 1
              /\ proc[i].exit = { IF FailedCalls(i) = {} THEN 0
                                  ELSE IF proc[i].stage = "second" THEN 2 ELSE 1 }
        /\ proc[i].pc # "exited" => Closes(i) = {}
        /\ proc[i].sel.err => Closes(i) = {}

\* C30 witness: a process whose stage launched its container exited 0
\* although Close, its last call, returned an error.
C30_Witness ==
    \E i \in Ids :
        /\ proc[i].pc = "exited" /\ proc[i].exit = {0}
        /\ Has(i, "RunContainer")
        /\ \E k \in Closes(i) : k = Len(Calls(i)) /\ ~Calls(i)[k].ok

---------------------------------------------------------------------------
(* Properties of the CLI engine's inspection: the options of a mount, the
   binds built from the mounts, the forms of the output, and the fallback to
   /proc *)

\* The n-th smallest element of a set of numbers
Nth(places, n) == CHOOSE k \in places : Cardinality({ j \in places : j <= k }) = n

\* The options written in Mode and then in Propagation, without the blanks
\* around them
OptionsOf(m) ==
    LET written == Split(m.Mode, ",") \o Split(m.Propagation, ",")
    IN  [k \in DOMAIN written |-> TrimSpace(written[k])]

\* The places of the options that are collected: not empty, not the keyword
\* bind, and not written before in any spelling
Collected(m) ==
    { k \in DOMAIN OptionsOf(m) :
        /\ OptionsOf(m)[k] # <<>>
        /\ ToLower(OptionsOf(m)[k]) # <<"b","i","n","d">>
        /\ \A j \in 1..(k - 1) : ToLower(OptionsOf(m)[j]) # ToLower(OptionsOf(m)[k]) }

\* C25: mountOptions returns the options of Mode and then of Propagation
\* without the empty ones, without "bind" in any spelling and without an
\* option written before in any spelling, followed by "ro" exactly when RW
\* is false and neither ro nor rw is among them (options being compared
\* without regard to case throughout); Mode "bind,rprivate,rw" with RW true
\* gives rprivate, rw.
C25_MountOptions ==
    \A i \in Ids : proc[i].pc = "returned" =>
        LET m == proc[i].m
            opts == proc[i].opts
            n == Cardinality(Collected(m))
            access == \E k \in Collected(m) :
                          ToLower(OptionsOf(m)[k]) \in { <<"r","o">>, <<"r","w">> }
        IN  /\ Len(opts) = n + (IF ~m.RW /\ ~access THEN 1 ELSE 0)
            /\ \A a \in 1..n : opts[a] = OptionsOf(m)[Nth(Collected(m), a)]
            /\ Len(opts) > n => opts[Len(opts)] = <<"r","o">>
            /\ \A a, b \in DOMAIN opts : a # b => ToLower(opts[a]) # ToLower(opts[b])
            /\ \A a \in DOMAIN opts : opts[a] # <<>> /\ ToLower(opts[a]) # <<"b","i","n","d">>
            /\ (m.Mode = <<"b","i","n","d",",","r","p","r","i","v","a","t","e",",","r","w">> /\ m.RW /\ m.Propagation = <<>>)
                  => opts = << <<"r","p","r","i","v","a","t","e">>, <<"r","w">> >>

\* C25 witness: mountOptions returned rprivate, rw for Mode
\* "bind,rprivate,rw" and RW true.
C25_Witness ==
    \E i \in Ids :
        /\ proc[i].pc = "returned"
        /\ proc[i].m.Mode = <<"b","i","n","d",",","r","p","r","i","v","a","t","e",",","r","w">> /\ proc[i].m.RW
        /\ proc[i].opts = << <<"r","p","r","i","v","a","t","e">>, <<"r","w">> >>

\* The inspection a successful InspectSelf of process i decoded
Inspected(i) ==
    LET elems == proc[i].out.elems
    IN  IF elems # <<>> /\ elems[1].kind = "object" THEN elems[1].resp ELSE ZeroResponse

\* Whether InspectSelf of process i returned without error
InspectedOk(i) == proc[i].pc # "InspectSelf" /\ ~proc[i].ret.err

\* The destination of a mount
DestinationOf(m) == IF m.Destination = <<>> THEN m.Target ELSE m.Destination

InternalDestinations == { <<"/","e","t","c","/","r","e","s","o","l","v",".","c","o","n","f">>, <<"/","e","t","c","/","h","o","s","t","s">>, <<"/","e","t","c","/","h","o","s","t","n","a","m","e">> }

\* The places of the mounts that become binds
KeptMounts(mounts) ==
    { k \in DOMAIN mounts :
        /\ ToLower(mounts[k].Type) = <<"b","i","n","d">>
        /\ DestinationOf(mounts[k]) # <<>>
        /\ DestinationOf(mounts[k]) \notin InternalDestinations }

\* C24: non-empty explicit binds are returned as they are; otherwise the
\* binds are, in the order of the mounts, one per bind mount that has a
\* destination (Destination, or Target when that is empty) other than
\* /etc/resolv.conf, /etc/hosts and /etc/hostname, each bind starting with
\* the mount's source and destination, and no bind is made of a mount to
\* one of the three.
C24_SynthesizedBinds ==
    \A i \in Ids : InspectedOk(i) =>
        LET resp == Inspected(i)
            binds == proc[i].ret.info.Binds
            kept == KeptMounts(resp.Mounts)
            Start(m) == m.Source \o <<":">> \o DestinationOf(m)
        IN  IF resp.HostConfig.Binds # <<>> THEN binds = resp.HostConfig.Binds
            ELSE /\ Len(binds) = Cardinality(kept)
                 /\ \A n \in DOMAIN binds :
                       \/ binds[n] = Start(resp.Mounts[Nth(kept, n)])
                       \/ HasPrefix(binds[n], Start(resp.Mounts[Nth(kept, n)]) \o <<":">>)
                 /\ \A k \in DOMAIN resp.Mounts, n \in DOMAIN binds :
                       DestinationOf(resp.Mounts[k]) \in InternalDestinations
                           => ~HasPrefix(binds[n], Start(resp.Mounts[k]))

\* C24 witness: of two mounts, the first to /etc/hosts by its Target, only
\* the second became a bind.
C24_Witness ==
    \E i \in Ids :
        /\ InspectedOk(i)
        /\ Len(Inspected(i).Mounts) = 2
        /\ Inspected(i).Mounts[1].Destination = <<>>
        /\ Inspected(i).Mounts[1].Target = <<"/","e","t","c","/","h","o","s","t","s">>
        /\ proc[i].ret.info.Binds = << <<"/","a",":","/","b",":","r","o">> >>

\* C27: a list of objects is accepted by the first decoding and its first
\* element is used; an object is accepted by the second decoding; an empty
\* list and an output that is neither form give an error with an empty
\* ContainerInfo after both decodings; after an error of InspectSelf the
\* stage has failed and no container was launched.
C27_OutputForms ==
    \A i \in Ids : proc[i].pc # "InspectSelf" =>
        LET out == proc[i].out
            ret == proc[i].ret
            first == out.elems[1].resp.Config
        IN  /\ (/\ proc[i].fault = "none"
                /\ out.kind = "array" /\ out.elems # <<>>
                /\ \A k \in DOMAIN out.elems : out.elems[k].kind = "object")
                   => /\ ~ret.err /\ ret.tried = <<"list">>
                      /\ ret.info.Image = first.Image /\ ret.info.Env = first.Env
            /\ (proc[i].fault = "none" /\ out.kind = "object")
                   => /\ ~ret.err /\ ret.tried = <<"list", "object">>
                      /\ ret.info.Image = first.Image /\ ret.info.Env = first.Env
            /\ (/\ proc[i].fault = "none"
                /\ \/ out.kind \in {"string", "invalid"}
                   \/ out.kind = "array" /\ out.elems = <<>>
                   \/ out.kind = "array" /\ \E k \in DOMAIN out.elems :
                                                out.elems[k].kind = "string")
                   => /\ ret.err /\ ret.tried = <<"list", "object">>
                      /\ ret.info = [Image |-> <<>>, Env |-> <<>>, Cmd |-> <<>>,
                                     Tty |-> FALSE, AttachStdout |-> FALSE,
                                     AttachStderr |-> FALSE, Privileged |-> FALSE,
                                     Binds |-> <<>>, PidMode |-> <<>>]
            /\ ret.err => proc[i].pc = "failed" /\ containers = <<>>
            /\ ~ret.err => proc[i].pc \in {"run", "launched"}

\* C27 witness: the output was an empty list, InspectSelf returned an error
\* and the stage failed.
C27_Witness ==
    \E i \in Ids :
        /\ proc[i].pc = "failed" /\ proc[i].fault = "none"
        /\ proc[i].out.kind = "array" /\ proc[i].out.elems = <<>>
        /\ proc[i].ret.err /\ containers = <<>>

\* The texts of /proc/self/status whose CapEff line shows every capability,
\* and those whose NSpid line lists one PID
FullCapabilities ==
    { <<"C","a","p","E","f","f",":","\t","0","0","0","0","0","1","f","f","f","f","f","f","f","f","f","f","\n","N","S","p","i","d",":","\t","7","\n">>,
      <<"N","S","p","i","d",":","\t","7","\t","1","\n","C","a","p","E","f","f",":","\t","0","0","0","0","0","0","3","f","f","f","f","f","f","f","f","f","\n">> }

OnePid ==
    { <<"C","a","p","E","f","f",":","\t","0","0","0","0","0","1","f","f","f","f","f","f","f","f","f","f","\n","N","S","p","i","d",":","\t","7","\n">>,
      <<"C","a","p","E","f","f",":","\t","0","0","0","0","0","0","0","0","f","f","f","f","f","f","f","f","\n","N","S","p","i","d",":","\t","7","\n">> }

\* C28: the returned Privileged is the inspected one or the one inferred
\* from the capabilities; the returned PidMode is the inspected one when it
\* is not empty and otherwise "host" when NSpid lists one PID and empty when
\* it does not.
C28_FallbackFillsAbsent ==
    \A i \in Ids : InspectedOk(i) =>
        LET host == Inspected(i).HostConfig
            status == proc[i].status
            info == proc[i].ret.info
            privileged == status.readable /\ status.data \in FullCapabilities
            pidMode == IF status.readable /\ status.data \in OnePid THEN <<"h","o","s","t">> ELSE <<>>
        IN  /\ info.Privileged = (host.Privileged \/ privileged)
            /\ info.PidMode = IF host.PidMode # <<>> THEN host.PidMode ELSE pidMode
            /\ host.Privileged => info.Privileged
            /\ host.PidMode # <<>> => info.PidMode = host.PidMode

\* C28 witness: the inspection gave no privilege and the PID mode of another
\* container, /proc shows every capability and one PID: Privileged was
\* filled in and PidMode was kept.
C28_Witness ==
    \E i \in Ids :
        /\ InspectedOk(i)
        /\ ~Inspected(i).HostConfig.Privileged
        /\ Inspected(i).HostConfig.PidMode = <<"c","o","n","t","a","i","n","e","r",":","c">>
        /\ proc[i].status.data = <<"C","a","p","E","f","f",":","\t","0","0","0","0","0","1","f","f","f","f","f","f","f","f","f","f","\n","N","S","p","i","d",":","\t","7","\n">>
        /\ proc[i].ret.info.Privileged
        /\ proc[i].ret.info.PidMode = <<"c","o","n","t","a","i","n","e","r",":","c">>

====
